---- MODULE Spec2Model ----
(***************************************************************************)
(* Model of the RAJA hybrid index set (sources/HybridISet.cxx) and of the  *)
(* OpenMP reducers (include/RAJA/policy/openmp/reduce.hpp).                *)
(*                                                                         *)
(* Index_type is a 32 bit int; every value of the model stays far below    *)
(* 2^31, so no operation wraps.  Array positions are 0-based in the source *)
(* and kept 0-based here: At(A, p) reads indices_in[p].                    *)
(***************************************************************************)
EXTENDS Integers, Sequences, FiniteSets, TLC

(***************************************************************************)
(* Configuration constants of the builder, set in RAJA/config.hxx.  64 is  *)
(* the alignment the specification names; the minimum length is one above  *)
(* the shortest run the cost rule alone would compress (5 values).         *)
(***************************************************************************)
RANGE_ALIGN == 64

RANGE_MIN_LENGTH == 6

(***************************************************************************)
(* Bounds of the model.                                                    *)
(***************************************************************************)
MaxPieces == 3

LongRun == 5

NumISets == 2

MaxSegs == 3

\* the number of segment objects the client of the container creates
MaxObjs == 4

NumWorkers == 2

ArrLen == 3

InitVal == 1

\* the number of reads of a slot-pool reducer the client performs
MaxReads == 2

\* the number of reduction ids the pool hands out
MaxIds == 2

\* the number of values the buffer of a caller holds
BufLen == 2

\* n consecutive values beginning with s
Run(s, n) == [k \in 1..n |-> s + k - 1]

\* n values beginning with s, every other integer
Sparse(s, n) == [k \in 1..n |-> s + 2 * (k - 1)]

VARIABLES
  indices_in,   \* builder argument: the index array
  length,       \* builder argument: the number of indices
  pc,           \* position of buildHybridISet
  ii,           \* loop counter of the running pass
  inrange,      \* -1 unknown, 0 inside a list stretch, 1 inside a range
  scanVal,      \* value at position ii-1
  sliceCount,   \* number of values gathered for the current stretch
  docount,      \* estimated size of the compressed representation
  dobegin,      \* begin value of a range / begin position of a list
  hindex,       \* the HybridISet under construction
  isets,        \* the HybridISet objects of a client, by object
  heap,         \* the segment objects: "none", "live" or "deleted"
  double_delete,\* a delete has hit an address that held no live object
  last_op,      \* the last operation of the client and the lines it wrote
  r_kind,       \* reducer kind: "min", "max" or "sum"
  r_init_val,   \* the initial value the root reducer is constructed with
  r_arr,        \* the array the workers reduce
  r_done,       \* positions of r_arr handled so far
  t_state,      \* tree-merge instances: "none", "live", "critical", "dead"
  t_parent,     \* m_parent of each tree-merge instance (NoParent: nullptr)
  t_val,        \* m_val of each tree-merge instance
  t_idx,        \* m_idx of each tree-merge ReduceMinLoc / ReduceMaxLoc
  t_custom_init,\* m_custom_init of each tree-merge ReduceSum
  t_tmp,        \* value of the parent read inside the fold of a destructor
  t_critical,   \* the instances inside the omp critical section
  s_state,      \* slot-pool instances: "none", "live", "dead"
  s_is_copy,    \* m_is_copy of each slot-pool instance
  s_init_val,   \* m_init_val of each slot-pool ReduceSum
  s_reduced_val,\* m_reduced_val of each slot-pool instance
  s_reduced_idx,\* m_reduced_idx of each slot-pool ReduceMinLoc / MaxLoc
  s_block,      \* the shared block: one slot per thread id
  s_idxblock,   \* the shared index block: one slot per thread id
  s_pc,         \* position of each worker inside an update
  s_tmp,        \* slot value a worker has loaded inside an update
  s_reads,      \* the number of reads performed on the slot-pool reducer
  s_got,        \* the last get() / getLoc() since the last update, if any
  p_inst,       \* slot-pool reducer objects of a client of the id pool
  p_pool,       \* the pool: for every id whether it is used, and its blocks
  p_acquired,   \* calls of getCPUReductionId made by each object
  p_released,   \* calls of releaseCPUReductionId made by each object
  p_bad_release,\* an id has been released that its caller did not hold
  c_mem,        \* the index arrays in memory; array 0 is the caller's buffer
  c_iset,       \* the index set of the caller; m_indx of a segment is an array
  c_expect      \* the indices that were in the buffer at each of the adds

bvars == <<indices_in, length, pc, ii, inrange, scanVal, sliceCount,
           docount, dobegin, hindex>>

ivars == <<isets, heap, double_delete, last_op>>

dvars == <<r_kind, r_init_val, r_arr, r_done>>

tvars == <<t_state, t_parent, t_val, t_idx, t_custom_init, t_tmp, t_critical>>

svars == <<s_state, s_is_copy, s_init_val, s_reduced_val, s_reduced_idx,
           s_block, s_idxblock, s_pc, s_tmp, s_reads, s_got>>

pvars == <<p_inst, p_pool, p_acquired, p_released, p_bad_release>>

cvars == <<c_mem, c_iset, c_expect>>

vars == <<bvars, ivars, dvars, tvars, svars, pvars, cvars>>

----------------------------------------------------------------------------
(* Segments and the HybridISet container.                                  *)

\* RangeISet(begin, end): the half open interval [begin, end)
RangeISet(begin, end) == [m_type |-> "_Range_", m_begin |-> begin, m_end |-> end]

\* UnstructuredISet(indx, len): owns a copy of the len values at indx
UnstructuredISet(indx) == [m_type |-> "_Unstructured_", m_indx |-> indx]

\* getLength() of one segment
SegLength(seg) ==
  IF seg.m_type = "_Range_" THEN seg.m_end - seg.m_begin
  ELSE IF seg.m_type = "_Unstructured_" THEN Len(seg.m_indx)
  ELSE 0

\* the indices a segment enumerates, in iteration order
SegIndices(seg) ==
  IF seg.m_type = "_Range_"
    THEN [k \in 1..(IF seg.m_end > seg.m_begin THEN seg.m_end - seg.m_begin ELSE 0)
            |-> seg.m_begin + k - 1]
  ELSE IF seg.m_type = "_Unstructured_" THEN seg.m_indx
  ELSE <<>>

\* HybridISet::HybridISet()
EmptyISet == [m_len |-> 0, m_segments |-> <<>>]

\* addRangeIndices without "m_len += new_is->getLength()"
addRangeIndices_NoLen(hs, begin, end) ==
  [m_len |-> hs.m_len, m_segments |-> Append(hs.m_segments, RangeISet(begin, end))]

\* HybridISet::addRangeIndices(begin, end)
addRangeIndices(hs, begin, end) ==
  LET new_is == RangeISet(begin, end)
  IN  [m_len      |-> hs.m_len + SegLength(new_is),
       m_segments |-> Append(hs.m_segments, new_is)]

\* HybridISet::addUnstructuredIndices(indx, len); indx is the sequence of
\* the len values found at the pointer
addUnstructuredIndices(hs, indx) ==
  LET new_is == UnstructuredISet(indx)
  IN  [m_len      |-> hs.m_len + SegLength(new_is),
       m_segments |-> Append(hs.m_segments, new_is)]

RECURSIVE Flatten(_)
\* the indices a sequence of segments enumerates: segment order, then the
\* order inside each segment
Flatten(segs) ==
  IF segs = <<>> THEN <<>>
  ELSE SegIndices(Head(segs)) \o Flatten(Tail(segs))

RECURSIVE SumLengths(_)
SumLengths(segs) ==
  IF segs = <<>> THEN 0 ELSE SegLength(Head(segs)) + SumLengths(Tail(segs))

\* addISet(const RangeISet&) putting the copy in front of the segments
addISetRange_Front(hs, index_set) ==
  LET new_is == RangeISet(index_set.m_begin, index_set.m_end)
  IN  [m_len      |-> hs.m_len + SegLength(new_is),
       m_segments |-> <<new_is>> \o hs.m_segments]

\* HybridISet::addISet(const RangeISet&): appends a copy of the segment
addISetRange(hs, index_set) ==
  LET new_is == RangeISet(index_set.m_begin, index_set.m_end)
  IN  [m_len      |-> hs.m_len + SegLength(new_is),
       m_segments |-> Append(hs.m_segments, new_is)]

\* HybridISet::addISet(const UnstructuredISet&): appends a copy of the segment
addISetList(hs, index_set) ==
  LET new_is == UnstructuredISet(index_set.m_indx)
  IN  [m_len      |-> hs.m_len + SegLength(new_is),
       m_segments |-> Append(hs.m_segments, new_is)]

\* RangeStrideISet(begin, end, stride): a segment kind of the disabled
\* ("#if 0") extension; the switch statements have no case for its type tag
RangeStrideISet(begin, end, stride) ==
  [m_type |-> "_RangeStride_", m_begin |-> begin, m_end |-> end, m_stride |-> stride]

\* addISet(const RangeStrideISet&) of the disabled extension: appends a copy
\* of the segment and adds its getLength(), end - begin, to m_len
addISetRangeStride(hs, index_set) ==
  LET new_is == RangeStrideISet(index_set.m_begin, index_set.m_end, index_set.m_stride)
  IN  [m_len      |-> hs.m_len + (new_is.m_end - new_is.m_begin),
       m_segments |-> Append(hs.m_segments, new_is)]

RECURSIVE copySegments_RangesOnly(_, _)
\* the loop of copy with the _Unstructured_ case missing from the switch
copySegments_RangesOnly(hs, segs) ==
  IF segs = <<>> THEN hs
  ELSE IF Head(segs).m_type = "_Range_"
    THEN copySegments_RangesOnly(addISetRange(hs, Head(segs)), Tail(segs))
    ELSE copySegments_RangesOnly(hs, Tail(segs))

RECURSIVE copySegments(_, _)
\* the loop of HybridISet::copy over the segments of the other index set
copySegments(hs, segs) ==
  IF segs = <<>> THEN hs
  ELSE LET seg == Head(segs)
       IN  IF seg.m_type = "_Range_"
             THEN copySegments(addISetRange(hs, seg), Tail(segs))
           ELSE IF seg.m_type = "_Unstructured_"
             THEN copySegments(addISetList(hs, seg), Tail(segs))
           ELSE copySegments(hs, Tail(segs))

\* HybridISet::HybridISet(const HybridISet& other): m_len(0), copy(other)
copyConstruct(other) == copySegments(EmptyISet, other.m_segments)

\* swap without "swap(m_len, other.m_len)"
swap_SegmentsOnly(this, other) ==
  << [m_len |-> this.m_len,  m_segments |-> other.m_segments],
     [m_len |-> other.m_len, m_segments |-> this.m_segments] >>

\* HybridISet::swap: the pair (this, other) after the call
swap(this, other) ==
  << [m_len |-> other.m_len, m_segments |-> other.m_segments],
     [m_len |-> this.m_len,  m_segments |-> this.m_segments] >>

\* operator== comparing the enumerated indices only
ISetEq_IndicesOnly(x, y) == Flatten(x.m_segments) = Flatten(y.m_segments)

\* operator==, as the comparison test and the specification describe it:
\* the same number of segments, enumerating the same indices in the same order
ISetEq(x, y) ==
  /\ Len(x.m_segments) = Len(y.m_segments)
  /\ Flatten(x.m_segments) = Flatten(y.m_segments)

\* operator!=
ISetNe(x, y) == ~ISetEq(x, y)

----------------------------------------------------------------------------
(* buildHybridISet(indices_in, length)                                     *)

\* values an out of bounds read may deliver
Junk == {-1, 0}

\* indices_in[p]; a position outside the array delivers an arbitrary value
At(A, p, junk) == IF p >= 0 /\ p < Len(A) THEN A[p + 1] ELSE junk

\* the n values starting one position late, at &indices_in[p + 1]
Slice_Late(A, p, n, junk) == [k \in 1..n |-> At(A, p + k, junk)]

\* the n values starting at &indices_in[p]
Slice(A, p, n, junk) == [k \in 1..n |-> At(A, p + k - 1, junk)]

\* no alignment test
Aligned_Any(v) == TRUE

Aligned(v) == (v % RANGE_ALIGN) = 0

\* lookAhead > scanVal
Consecutive_Increasing(lookAhead, sv) == lookAhead > sv

\* lookAhead == scanVal+1
Consecutive(lookAhead, sv) == lookAhead = sv + 1

\* every array that is not empty is transformed
LargeEnough_Any(len) == len > 0

\* "only transform relatively large"
LargeEnough(len) == len > RANGE_MIN_LENGTH

\* a cutoff that also lets through an estimate equal to the threshold
Cutoff_Inclusive(len) == (len * (RANGE_ALIGN - 1)) \div RANGE_ALIGN + 1

\* the cutoff of the compression decision
Cutoff(len) == (len * (RANGE_ALIGN - 1)) \div RANGE_ALIGN

\* the first test without "(scanVal % RANGE_ALIGN) == 0"
FirstTest_NoAlign(inr, lookAhead, sv) ==
  IF inr = -1
    THEN (IF Consecutive(lookAhead, sv) THEN 1 ELSE 0)
    ELSE inr

\* inrange after the first test of a loop body
FirstTest(inr, lookAhead, sv) ==
  IF inr = -1
    THEN (IF Consecutive(lookAhead, sv) /\ Aligned(sv) THEN 1 ELSE 0)
    ELSE inr

\* length <= RANGE_MIN_LENGTH: the whole array becomes one list segment
SkipSmall ==
  /\ pc = "start"
  /\ ~LargeEnough(length)
  /\ \E junk \in Junk :
       hindex' = addUnstructuredIndices(hindex, Slice(indices_in, 0, length, junk))
  /\ pc' = "done"
  /\ UNCHANGED <<ivars, dvars, tvars, svars, pvars, cvars>>
  /\ UNCHANGED <<indices_in, length, ii, inrange, scanVal, sliceCount,
                 docount, dobegin>>

\* length > RANGE_MIN_LENGTH: set up the statistics pass
BeginStatistics ==
  /\ pc = "start"
  /\ LargeEnough(length)
  /\ \E junk \in Junk : scanVal' = At(indices_in, 0, junk)
  /\ docount' = 0
  /\ inrange' = -1
  /\ sliceCount' = 0
  /\ ii' = 1
  /\ pc' = "stat"
  /\ UNCHANGED <<ivars, dvars, tvars, svars, pvars, cvars>>
  /\ UNCHANGED <<indices_in, length, dobegin, hindex>>

\* one iteration of the statistics loop
StatStep ==
  /\ pc = "stat"
  /\ ii < length
  /\ \E junk \in Junk :
       LET lookAhead == At(indices_in, ii, junk)
           inr       == FirstTest(inrange, lookAhead, scanVal)
       IN  /\ IF Consecutive(lookAhead, scanVal)
                THEN IF inr = 0 /\ Aligned(scanVal)
                       THEN /\ docount' = IF sliceCount # 0
                                            THEN docount + 1 + sliceCount
                                            ELSE docount
                            /\ inrange' = 1
                            /\ sliceCount' = 1
                       ELSE /\ docount' = docount
                            /\ inrange' = inr
                            /\ sliceCount' = sliceCount + 1
                ELSE IF inr = 1
                       THEN /\ docount' = docount + 2
                            /\ inrange' = 0
                            /\ sliceCount' = 0
                       ELSE /\ docount' = docount
                            /\ inrange' = inr
                            /\ sliceCount' = sliceCount + 1
           /\ scanVal' = lookAhead
  /\ ii' = ii + 1
  /\ UNCHANGED <<ivars, dvars, tvars, svars, pvars, cvars>>
  /\ UNCHANGED <<indices_in, length, pc, dobegin, hindex>>

\* the end of the statistics pass counting an open range as a list
FinalCount_RangeAsList ==
  1 + (IF inrange # -1
         THEN docount + 1 + (sliceCount + 1)
         ELSE (IF scanVal # -1 THEN docount + 2 ELSE docount))

\* docount once the statistics loop has ended
FinalCount ==
  1 + (IF inrange # -1
         THEN (IF inrange = 1 THEN docount + 2
                              ELSE docount + 1 + (sliceCount + 1))
         ELSE (IF scanVal # -1 THEN docount + 2 ELSE docount))

\* sliceCount once the statistics loop has ended
FinalSlice ==
  IF inrange # -1 \/ scanVal # -1 THEN sliceCount + 1 ELSE sliceCount

\* the estimate is below the cutoff: set up the build pass
BeginBuild ==
  /\ pc = "stat"
  /\ ~(ii < length)
  /\ FinalCount < Cutoff(length)
  /\ docount' = FinalCount
  /\ inrange' = -1
  /\ \E junk \in Junk :
       /\ scanVal' = At(indices_in, 0, junk)
       /\ dobegin' = At(indices_in, 0, junk)
  /\ sliceCount' = 0
  /\ ii' = 1
  /\ pc' = "build"
  /\ UNCHANGED <<ivars, dvars, tvars, svars, pvars, cvars>>
  /\ UNCHANGED <<indices_in, length, hindex>>

\* the estimate is not below the cutoff: one list segment
RejectCompression ==
  /\ pc = "stat"
  /\ ~(ii < length)
  /\ ~(FinalCount < Cutoff(length))
  /\ docount' = FinalCount
  /\ sliceCount' = FinalSlice
  /\ \E junk \in Junk :
       hindex' = addUnstructuredIndices(hindex, Slice(indices_in, 0, length, junk))
  /\ pc' = "done"
  /\ UNCHANGED <<ivars, dvars, tvars, svars, pvars, cvars>>
  /\ UNCHANGED <<indices_in, length, ii, inrange, scanVal, dobegin>>

\* a build loop that closes the open list at every value that does not
\* follow its predecessor
BuildStep_ListPerStretch ==
  /\ pc = "build"
  /\ ii < length
  /\ \E junk \in Junk :
       LET lookAhead == At(indices_in, ii, junk)
           inr       == FirstTest(inrange, lookAhead, scanVal)
           dob       == IF inrange = -1 /\ inr = 0 THEN ii - 1 ELSE dobegin
       IN  /\ IF Consecutive(lookAhead, scanVal)
                THEN IF inr = 0 /\ Aligned(scanVal)
                       THEN /\ hindex' = IF sliceCount # 0
                                 THEN addUnstructuredIndices(hindex,
                                        Slice(indices_in, dob, sliceCount, junk))
                                 ELSE hindex
                            /\ inrange' = 1
                            /\ dobegin' = scanVal
                            /\ sliceCount' = 1
                       ELSE /\ hindex' = hindex
                            /\ inrange' = inr
                            /\ dobegin' = dob
                            /\ sliceCount' = sliceCount + 1
                ELSE IF inr = 1
                       THEN /\ hindex' = addRangeIndices(hindex, dob,
                                                         dob + (sliceCount + 1))
                            /\ inrange' = 0
                            /\ sliceCount' = 0
                            /\ dobegin' = ii
                       ELSE /\ hindex' = addUnstructuredIndices(hindex,
                                        Slice(indices_in, dob, sliceCount + 1, junk))
                            /\ inrange' = inr
                            /\ dobegin' = ii
                            /\ sliceCount' = 0
           /\ scanVal' = lookAhead
  /\ ii' = ii + 1
  /\ UNCHANGED <<ivars, dvars, tvars, svars, pvars, cvars>>
  /\ UNCHANGED <<indices_in, length, pc, docount>>

\* one iteration of the build loop
BuildStep ==
  /\ pc = "build"
  /\ ii < length
  /\ \E junk \in Junk :
       LET lookAhead == At(indices_in, ii, junk)
           inr       == FirstTest(inrange, lookAhead, scanVal)
           dob       == IF inrange = -1 /\ inr = 0 THEN ii - 1 ELSE dobegin
       IN  /\ IF Consecutive(lookAhead, scanVal)
                THEN IF inr = 0 /\ Aligned(scanVal)
                       THEN /\ hindex' = IF sliceCount # 0
                                 THEN addUnstructuredIndices(hindex,
                                        Slice(indices_in, dob, sliceCount, junk))
                                 ELSE hindex
                            /\ inrange' = 1
                            /\ dobegin' = scanVal
                            /\ sliceCount' = 1
                       ELSE /\ hindex' = hindex
                            /\ inrange' = inr
                            /\ dobegin' = dob
                            /\ sliceCount' = sliceCount + 1
                ELSE IF inr = 1
                       THEN /\ hindex' = addRangeIndices(hindex, dob,
                                                         dob + (sliceCount + 1))
                            /\ inrange' = 0
                            /\ sliceCount' = 0
                            /\ dobegin' = ii
                       ELSE /\ hindex' = hindex
                            /\ inrange' = inr
                            /\ dobegin' = dob
                            /\ sliceCount' = sliceCount + 1
           /\ scanVal' = lookAhead
  /\ ii' = ii + 1
  /\ UNCHANGED <<ivars, dvars, tvars, svars, pvars, cvars>>
  /\ UNCHANGED <<indices_in, length, pc, docount>>

\* the open segment appended without ++sliceCount
EndBuild_NoIncrement ==
  /\ pc = "build"
  /\ ~(ii < length)
  /\ IF inrange # -1
       THEN IF inrange = 1
              THEN /\ hindex' = addRangeIndices(hindex, dobegin,
                                                dobegin + sliceCount)
                   /\ sliceCount' = sliceCount + 1
              ELSE /\ \E junk \in Junk :
                        hindex' = addUnstructuredIndices(hindex,
                           Slice(indices_in, dobegin, sliceCount, junk))
                   /\ sliceCount' = sliceCount + 1
       ELSE /\ hindex' = IF scanVal # -1
                           THEN addUnstructuredIndices(hindex, <<scanVal>>)
                           ELSE hindex
            /\ sliceCount' = sliceCount
  /\ pc' = "done"
  /\ UNCHANGED <<ivars, dvars, tvars, svars, pvars, cvars>>
  /\ UNCHANGED <<indices_in, length, ii, inrange, scanVal, docount, dobegin>>

\* the segment that is open when the build loop ends
EndBuild ==
  /\ pc = "build"
  /\ ~(ii < length)
  /\ IF inrange # -1
       THEN IF inrange = 1
              THEN /\ hindex' = addRangeIndices(hindex, dobegin,
                                                dobegin + (sliceCount + 1))
                   /\ sliceCount' = sliceCount + 1
              ELSE /\ \E junk \in Junk :
                        hindex' = addUnstructuredIndices(hindex,
                           Slice(indices_in, dobegin, sliceCount + 1, junk))
                   /\ sliceCount' = sliceCount + 1
       ELSE /\ hindex' = IF scanVal # -1
                           THEN addUnstructuredIndices(hindex, <<scanVal>>)
                           ELSE hindex
            /\ sliceCount' = sliceCount
  /\ pc' = "done"
  /\ UNCHANGED <<ivars, dvars, tvars, svars, pvars, cvars>>
  /\ UNCHANGED <<indices_in, length, ii, inrange, scanVal, docount, dobegin>>

----------------------------------------------------------------------------
(* A client of the container: it constructs, fills, copies, assigns, swaps *)
(* and destroys HybridISet objects.                                        *)

ISets == 1..NumISets

\* the arguments the client adds segments with
RangeArgs == {<<0, 5>>, <<5, 10>>, <<0, 10>>}

ListArgs == {Run(0, 5)}

\* the arguments the client adds segments of the disabled kind with
StrideArgs == {<<0, 10, 2>>}

\* the segment objects, in the order of their creation; an object that has
\* been deleted is not created again
Addrs == 1..MaxObjs

\* an index set object: m_ptrs[k] is the address held in m_segments[k]
NoISet == [live |-> FALSE, m_len |-> 0, m_segments |-> <<>>, m_ptrs |-> <<>>]

Obj(hs, ptrs) ==
  [live |-> TRUE, m_len |-> hs.m_len, m_segments |-> hs.m_segments, m_ptrs |-> ptrs]

Room(i) == Len(isets[i].m_segments) < MaxSegs

\* the type tags the switch statements have a case for
Known(seg) == seg.m_type \in {"_Range_", "_Unstructured_"}

RECURSIVE KnownPtrs(_, _)
\* the addresses held in the segments of a known type, in segment order
KnownPtrs(segs, ptrs) ==
  IF segs = <<>> THEN <<>>
  ELSE (IF Known(Head(segs)) THEN <<Head(ptrs)>> ELSE <<>>)
         \o KnownPtrs(Tail(segs), Tail(ptrs))

Elems(q) == {q[k] : k \in 1..Len(q)}

\* the object the next call of new creates
FirstFree(h) ==
  CHOOSE a \in Addrs : h[a] = "none" /\ \A b \in Addrs : h[b] = "none" => a <= b

RECURSIVE NewAddrs(_, _)
\* the addresses n calls of new return, one after the other
NewAddrs(h, n) ==
  IF n = 0 THEN <<>>
  ELSE <<FirstFree(h)>> \o NewAddrs([h EXCEPT ![FirstFree(h)] = "live"], n - 1)

\* the copy holds the addresses of the source
CopyAddrs_Shared(h, other) == KnownPtrs(other.m_segments, other.m_ptrs)

\* the loop of copy: one new object for every segment of a known type
CopyAddrs(h, other) == NewAddrs(h, Len(KnownPtrs(other.m_segments, other.m_ptrs)))

\* the heap once the objects at addrs have been allocated
Allocated(h, addrs) == [a \in Addrs |-> IF a \in Elems(addrs) THEN "live" ELSE h[a]]

\* the loop of the destructor stopping at the first segment of unknown type
DeleteSegments_Stop(h, segs, ptrs) ==
  [a \in Addrs |->
     IF \E k \in 1..Len(segs) :
          /\ ptrs[k] = a
          /\ \A m \in 1..k : Known(segs[m])
       THEN "deleted" ELSE h[a]]

\* the loop of the destructor: delete for every segment of a known type
DeleteSegments(h, segs, ptrs) ==
  [a \in Addrs |-> IF a \in Elems(KnownPtrs(segs, ptrs)) THEN "deleted" ELSE h[a]]

\* some delete of the destructor's loop hits no live object
BadDelete(h, segs, ptrs) ==
  LET del == KnownPtrs(segs, ptrs)
  IN  \/ \E k \in 1..Len(del) : h[del[k]] # "live"
      \/ \E k, m \in 1..Len(del) : k # m /\ del[k] = del[m]

RECURSIVE Diagnostics(_, _)
\* the "case not implemented" lines a loop over the segments writes
Diagnostics(segs, msg) ==
  IF segs = <<>> THEN <<>>
  ELSE (IF Known(Head(segs)) THEN <<>> ELSE <<msg>>)
         \o Diagnostics(Tail(segs), msg)

\* the lines print writes, one for every segment
printLines(segs) ==
  [k \in 1..Len(segs) |->
     IF Known(segs[k]) THEN segs[k] ELSE "print: case not implemented"]

NoOp == [op |-> "none", a |-> 0, b |-> 0, out |-> <<>>]

\* operation o on the index sets i and j, with the lines it wrote
Op(o, i, j, output) == [op |-> o, a |-> i, b |-> j, out |-> output]

\* n more objects can be allocated
CanAlloc(n) == Cardinality({a \in Addrs : heap[a] = "none"}) >= n

\* HybridISet a;
Construct(i) ==
  /\ ~isets[i].live
  /\ isets' = [isets EXCEPT ![i] = Obj(EmptyISet, <<>>)]
  /\ last_op' = Op("construct", i, i, <<>>)
  /\ UNCHANGED <<heap, double_delete>>
  /\ UNCHANGED <<bvars, dvars, tvars, svars, pvars, cvars>>

\* HybridISet a(b);
CopyConstruct(i, j) ==
  /\ ~isets[i].live
  /\ isets[j].live
  /\ CanAlloc(Len(isets[j].m_segments))
  /\ isets' = [isets EXCEPT ![i] = Obj(copyConstruct(isets[j]),
                                       CopyAddrs(heap, isets[j]))]
  /\ heap' = Allocated(heap, CopyAddrs(heap, isets[j]))
  /\ last_op' = Op("copy", i, j,
                   Diagnostics(isets[j].m_segments, "copy: case not implemented"))
  /\ UNCHANGED double_delete
  /\ UNCHANGED <<bvars, dvars, tvars, svars, pvars, cvars>>

\* a = a with the test "&rhs != this" left out
Assign_NoSelfTest(i, j) ==
  /\ isets[i].live
  /\ isets[j].live
  /\ CanAlloc(Len(isets[j].m_segments))
  /\ LET ptrs == CopyAddrs(heap, isets[j])
         copy == Obj(copyConstruct(isets[j]), ptrs)
     IN  /\ isets' = [isets EXCEPT ![i] = copy]
         /\ heap' = DeleteSegments(Allocated(heap, ptrs),
                                   isets[i].m_segments, isets[i].m_ptrs)
  /\ last_op' = Op("assign", i, j, <<>>)
  /\ UNCHANGED double_delete
  /\ UNCHANGED <<bvars, dvars, tvars, svars, pvars, cvars>>

\* a = b; a copy of b is constructed and swapped with a, and the destructor of
\* the copy then deletes what a held; nothing happens when b is a itself
Assign(i, j) ==
  /\ isets[i].live
  /\ isets[j].live
  /\ i # j => CanAlloc(Len(isets[j].m_segments))
  /\ IF i # j
       THEN LET ptrs == CopyAddrs(heap, isets[j])
                copy == copyConstruct(isets[j])
                mid  == Allocated(heap, ptrs)
            IN  /\ isets' = [isets EXCEPT ![i] = Obj(swap(isets[i], copy)[1], ptrs)]
                /\ heap' = DeleteSegments(mid, swap(isets[i], copy)[2].m_segments,
                                          isets[i].m_ptrs)
                /\ double_delete' =
                     (double_delete \/ BadDelete(mid, isets[i].m_segments,
                                                 isets[i].m_ptrs))
                /\ last_op' = Op("assign", i, j,
                     Diagnostics(isets[j].m_segments, "copy: case not implemented")
                       \o Diagnostics(isets[i].m_segments,
                                      "dtor: case not implemented"))
       ELSE /\ UNCHANGED <<isets, heap, double_delete>>
            /\ last_op' = Op("assign", i, j, <<>>)
  /\ UNCHANGED <<bvars, dvars, tvars, svars, pvars, cvars>>

\* a.swap(b) done as three copies: tmp(a); a = b; b = tmp
Swap_ByCopy(i, j) ==
  /\ isets[i].live
  /\ isets[j].live
  /\ i # j
  /\ CanAlloc(Len(isets[i].m_segments) + Len(isets[j].m_segments))
  /\ LET pa == CopyAddrs(heap, isets[j])
         h1 == Allocated(heap, pa)
         pb == CopyAddrs(h1, isets[i])
         h2 == Allocated(h1, pb)
     IN  /\ isets' = [isets EXCEPT ![i] = Obj(copyConstruct(isets[j]), pa),
                                   ![j] = Obj(copyConstruct(isets[i]), pb)]
         /\ heap' = DeleteSegments(
                      DeleteSegments(h2, isets[i].m_segments, isets[i].m_ptrs),
                      isets[j].m_segments, isets[j].m_ptrs)
  /\ last_op' = Op("swap", i, j, <<>>)
  /\ UNCHANGED double_delete
  /\ UNCHANGED <<bvars, dvars, tvars, svars, pvars, cvars>>

\* a.swap(b);
Swap(i, j) ==
  /\ isets[i].live
  /\ isets[j].live
  /\ isets' = [isets EXCEPT ![i] = Obj(swap(isets[i], isets[j])[1], isets[j].m_ptrs),
                            ![j] = Obj(swap(isets[i], isets[j])[2], isets[i].m_ptrs)]
  /\ last_op' = Op("swap", i, j, <<>>)
  /\ UNCHANGED <<heap, double_delete>>
  /\ UNCHANGED <<bvars, dvars, tvars, svars, pvars, cvars>>

\* the effect of one of the add methods: hs is the index set after the call,
\* the new segment object is at the first free address
Added(i, hs) ==
  /\ isets[i].live
  /\ Room(i)
  /\ CanAlloc(1)
  /\ isets' = [isets EXCEPT ![i] = Obj(hs, Append(isets[i].m_ptrs, FirstFree(heap)))]
  /\ heap' = [heap EXCEPT ![FirstFree(heap)] = "live"]
  /\ last_op' = Op("add", i, i, <<>>)
  /\ UNCHANGED double_delete
  /\ UNCHANGED <<bvars, dvars, tvars, svars, pvars, cvars>>

\* a.addISet(RangeISet(begin, end));
AddISetRange(i, r) == Added(i, addISetRange(isets[i], RangeISet(r[1], r[2])))

\* a.addISet(UnstructuredISet(indx, len));
AddISetList(i, l) == Added(i, addISetList(isets[i], UnstructuredISet(l)))

\* a.addRangeIndices(begin, end);
AddRangeIndices(i, r) == Added(i, addRangeIndices(isets[i], r[1], r[2]))

\* a.addUnstructuredIndices(indx, len);
AddUnstructuredIndices(i, l) == Added(i, addUnstructuredIndices(isets[i], l))

\* push_front of a copy of a range segment: the new segment comes first
PushFront(i, r) ==
  /\ isets[i].live
  /\ Room(i)
  /\ CanAlloc(1)
  /\ LET new_is == RangeISet(r[1], r[2])
     IN  isets' = [isets EXCEPT ![i] =
           Obj([m_len      |-> isets[i].m_len + SegLength(new_is),
                m_segments |-> <<new_is>> \o isets[i].m_segments],
               <<FirstFree(heap)>> \o isets[i].m_ptrs)]
  /\ heap' = [heap EXCEPT ![FirstFree(heap)] = "live"]
  /\ last_op' = Op("front", i, i, <<>>)
  /\ UNCHANGED double_delete
  /\ UNCHANGED <<bvars, dvars, tvars, svars, pvars, cvars>>

\* a.addISet(RangeStrideISet(begin, end, stride)); the index set then holds a
\* segment of a type the switch statements do not know
AddISetRangeStride(i, r) ==
  Added(i, addISetRangeStride(isets[i], RangeStrideISet(r[1], r[2], r[3])))

\* a.print(os);
printISet(i) ==
  /\ isets[i].live
  /\ last_op' = Op("print", i, i, printLines(isets[i].m_segments))
  /\ UNCHANGED <<isets, heap, double_delete>>
  /\ UNCHANGED <<bvars, dvars, tvars, svars, pvars, cvars>>

\* a destructor that deletes nothing
Destroy_NoDelete(i) ==
  /\ isets[i].live
  /\ isets' = [isets EXCEPT ![i] = NoISet]
  /\ last_op' = Op("destroy", i, i, <<>>)
  /\ UNCHANGED <<heap, double_delete>>
  /\ UNCHANGED <<bvars, dvars, tvars, svars, pvars, cvars>>

\* a goes out of scope: the destructor deletes the segments of a known type
Destroy(i) ==
  /\ isets[i].live
  /\ isets' = [isets EXCEPT ![i] = NoISet]
  /\ heap' = DeleteSegments(heap, isets[i].m_segments, isets[i].m_ptrs)
  /\ double_delete' =
       (double_delete \/ BadDelete(heap, isets[i].m_segments, isets[i].m_ptrs))
  /\ last_op' = Op("destroy", i, i,
                   Diagnostics(isets[i].m_segments, "dtor: case not implemented"))
  /\ UNCHANGED <<bvars, dvars, tvars, svars, pvars, cvars>>

ISetIdle ==
  /\ isets = [i \in ISets |-> NoISet]
  /\ heap = [a \in Addrs |-> "none"]
  /\ double_delete = FALSE
  /\ last_op = NoOp

ISetNext ==
  \/ \E i \in ISets : Construct(i)
  \/ \E i, j \in ISets : CopyConstruct(i, j)
  \/ \E i, j \in ISets : Assign(i, j)
  \/ \E i, j \in ISets : Swap(i, j)
  \/ \E i \in ISets, r \in RangeArgs : AddISetRange(i, r)
  \/ \E i \in ISets, l \in ListArgs : AddISetList(i, l)
  \/ \E i \in ISets, r \in RangeArgs : AddRangeIndices(i, r)
  \/ \E i \in ISets, l \in ListArgs : AddUnstructuredIndices(i, l)
  \/ \E i \in ISets : Destroy(i)

\* a client that fills index sets at both ends
PushNext ==
  \/ \E i \in ISets : Construct(i)
  \/ \E i \in ISets, r \in RangeArgs : AddISetRange(i, r)
  \/ \E i \in ISets, l \in ListArgs : AddISetList(i, l)
  \/ \E i \in ISets, r \in RangeArgs : AddRangeIndices(i, r)
  \/ \E i \in ISets, l \in ListArgs : AddUnstructuredIndices(i, l)
  \/ \E i \in ISets, r \in RangeArgs : PushFront(i, r)
  \/ \E i \in ISets : Destroy(i)

\* a client whose index sets may hold a segment of the disabled kind
UnknownNext ==
  \/ \E i \in ISets : Construct(i)
  \/ \E i \in ISets, r \in {<<5, 10>>} : AddISetRange(i, r)
  \/ \E i \in ISets, l \in ListArgs : AddISetList(i, l)
  \/ \E i \in ISets, r \in StrideArgs : AddISetRangeStride(i, r)
  \/ \E i, j \in ISets : CopyConstruct(i, j)
  \/ \E i \in ISets : printISet(i)
  \/ \E i \in ISets : Destroy(i)

----------------------------------------------------------------------------
(* Reducers: the data the workers reduce.                                  *)

Kinds == {"min", "max", "sum", "minloc", "maxloc"}

\* the kinds that keep the location of the value: ReduceMinLoc, ReduceMaxLoc
LocKinds == {"minloc", "maxloc"}

\* init_idx of the reducers in this model: no position of the array
InitLoc == -1

Workers == 1..NumWorkers

Positions == 1..ArrLen

\* values below, at and above the initial value
DataVals == {InitVal - 1, InitVal + 1}

\* the incoming value rhs replaces val: it is strictly smaller (min, minloc)
\* or strictly larger (max, maxloc)
Wins(kind, val, rhs) ==
  IF kind \in {"min", "minloc"} THEN rhs < val
  ELSE IF kind \in {"max", "maxloc"} THEN rhs > val
  ELSE FALSE

\* RAJA::reduce::min / max / sum / minloc / maxloc: the value left in the
\* first argument
Combine(kind, val, rhs) ==
  IF kind = "sum" THEN val + rhs
  ELSE IF Wins(kind, val, rhs) THEN rhs ELSE val

\* a tie also moves the location
CombineLoc_TakeTies(kind, val, loc, rhs, idx) ==
  IF kind \in LocKinds /\ (Wins(kind, val, rhs) \/ rhs = val) THEN idx ELSE loc

\* RAJA::reduce::minloc / maxloc: the location left in the second argument;
\* it moves only when the incoming value wins, a tie keeps the location
CombineLoc(kind, val, loc, rhs, idx) ==
  IF kind \in LocKinds /\ Wins(kind, val, rhs) THEN idx ELSE loc

RECURSIVE SeqReduce(_, _, _)
\* the sequential reduction of an initial value and an array, in array order
SeqReduce(kind, val, arr) ==
  IF arr = <<>> THEN val
  ELSE SeqReduce(kind, Combine(kind, val, Head(arr)), Tail(arr))

\* every position of the array has been handled
AllDone == r_done = Positions

\* the dispatcher hands out the positions in enumeration order: k is the
\* first position not in taken, so every worker sees its positions in
\* increasing order
IsNextPosition(k, taken) ==
  /\ k \in Positions \ taken
  /\ \A j \in Positions \ taken : k <= j

DataInit ==
  /\ r_kind \in Kinds
  /\ r_init_val = InitVal
  /\ r_arr \in [Positions -> DataVals]
  /\ r_done = {}

DataIdle ==
  /\ r_kind = "min"
  /\ r_init_val = 0
  /\ r_arr = <<>>
  /\ r_done = {}

----------------------------------------------------------------------------
(* Tree-merge reducers: ReduceMin / ReduceMax / ReduceSum / ReduceMinLoc /  *)
(* ReduceMaxLoc <omp_reduce, T>.  Instance 0 is the root, instance w the   *)
(* duplicate worker w updates; the location of the value at position k of  *)
(* the array is k.                                                         *)

TInst == 0..NumWorkers

NoParent == -1

\* m_parent of a copy: &other for every source
CopyParent_Source(other) == other

\* m_parent of a copy: other.m_parent ? other.m_parent : &other
CopyParent(other) ==
  IF t_parent[other] # NoParent THEN t_parent[other] ELSE other

\* m_val of a copy: other.m_val for every kind
CopyVal_Source(kind, other) == t_val[other]

\* m_val of a copy: other.m_val, for ReduceSum other.m_custom_init
CopyVal(kind, other) ==
  IF kind = "sum" THEN t_custom_init[other] ELSE t_val[other]

\* the destructor without #pragma omp critical
CriticalFree_Unguarded == TRUE

\* #pragma omp critical: nobody else is inside
CriticalFree == t_critical = {}

\* a copy constructor that leaves m_idx at init_idx
T_Copy_InitLoc(d, other) ==
  /\ d \in Workers
  /\ t_state[d] = "none"
  /\ t_state[other] = "live"
  /\ t_state' = [t_state EXCEPT ![d] = "live"]
  /\ t_parent' = [t_parent EXCEPT ![d] = CopyParent(other)]
  /\ t_val' = [t_val EXCEPT ![d] = CopyVal(r_kind, other)]
  /\ t_idx' = [t_idx EXCEPT ![d] = IF r_kind \in LocKinds THEN InitLoc ELSE 0]
  /\ t_custom_init' = [t_custom_init EXCEPT ![d] = t_custom_init[other]]
  /\ UNCHANGED <<t_tmp, t_critical>>
  /\ UNCHANGED <<bvars, ivars, dvars, svars, pvars, cvars>>

\* copy constructor: d becomes a copy of other
T_Copy(d, other) ==
  /\ d \in Workers
  /\ t_state[d] = "none"
  /\ t_state[other] = "live"
  /\ t_state' = [t_state EXCEPT ![d] = "live"]
  /\ t_parent' = [t_parent EXCEPT ![d] = CopyParent(other)]
  /\ t_val' = [t_val EXCEPT ![d] = CopyVal(r_kind, other)]
  /\ t_idx' = [t_idx EXCEPT ![d] = t_idx[other]]
  /\ t_custom_init' = [t_custom_init EXCEPT ![d] = t_custom_init[other]]
  /\ UNCHANGED <<t_tmp, t_critical>>
  /\ UNCHANGED <<bvars, ivars, dvars, svars, pvars, cvars>>

\* an update applied to m_parent->m_val instead of m_val
T_Update_Parent(d, k) ==
  /\ d \in Workers
  /\ t_state[d] = "live"
  /\ t_parent[d] # NoParent
  /\ IsNextPosition(k, r_done)
  /\ t_val' = [t_val EXCEPT ![t_parent[d]] = Combine(r_kind, @, r_arr[k])]
  /\ t_idx' = [t_idx EXCEPT ![t_parent[d]] =
                 CombineLoc(r_kind, t_val[t_parent[d]], @, r_arr[k], k)]
  /\ r_done' = r_done \cup {k}
  /\ UNCHANGED <<t_state, t_parent, t_custom_init, t_tmp, t_critical>>
  /\ UNCHANGED <<r_kind, r_init_val, r_arr>>
  /\ UNCHANGED <<bvars, ivars, svars, pvars, cvars>>

\* min(rhs) / max(rhs) / operator+=(rhs) / minloc(rhs, idx) /
\* maxloc(rhs, idx) on the duplicate of worker d
T_Update(d, k) ==
  /\ d \in Workers
  /\ t_state[d] = "live"
  /\ IsNextPosition(k, r_done)
  /\ t_val' = [t_val EXCEPT ![d] = Combine(r_kind, t_val[d], r_arr[k])]
  /\ t_idx' = [t_idx EXCEPT ![d] = CombineLoc(r_kind, t_val[d], t_idx[d], r_arr[k], k)]
  /\ r_done' = r_done \cup {k}
  /\ UNCHANGED <<t_state, t_parent, t_custom_init, t_tmp, t_critical>>
  /\ UNCHANGED <<r_kind, r_init_val, r_arr>>
  /\ UNCHANGED <<bvars, ivars, svars, pvars, cvars>>

\* destructor of a duplicate: enters the critical section and reads
\* m_parent->m_val
T_DtorEnter(d) ==
  /\ d \in Workers
  /\ t_state[d] = "live"
  /\ t_parent[d] # NoParent
  /\ CriticalFree
  /\ t_critical' = t_critical \cup {d}
  /\ t_state' = [t_state EXCEPT ![d] = "critical"]
  /\ t_tmp' = [t_tmp EXCEPT ![d] = t_val[t_parent[d]]]
  /\ UNCHANGED <<t_parent, t_val, t_idx, t_custom_init>>
  /\ UNCHANGED <<bvars, ivars, dvars, svars, pvars, cvars>>

\* a destructor that stores the value of the duplicate in the parent instead
\* of combining the two
T_DtorFold_Assign(d) ==
  /\ d \in Workers
  /\ t_state[d] = "critical"
  /\ t_val' = [t_val EXCEPT ![t_parent[d]] = t_val[d]]
  /\ t_idx' = [t_idx EXCEPT ![t_parent[d]] =
                 CombineLoc(r_kind, t_tmp[d], t_idx[t_parent[d]], t_val[d], t_idx[d])]
  /\ t_critical' = t_critical \ {d}
  /\ t_state' = [t_state EXCEPT ![d] = "dead"]
  /\ UNCHANGED <<t_parent, t_custom_init, t_tmp>>
  /\ UNCHANGED <<bvars, ivars, dvars, svars, pvars, cvars>>

\* destructor of a duplicate: writes the folded value to the parent and
\* leaves the critical section
T_DtorFold(d) ==
  /\ d \in Workers
  /\ t_state[d] = "critical"
  /\ t_val' = [t_val EXCEPT ![t_parent[d]] = Combine(r_kind, t_tmp[d], t_val[d])]
  /\ t_idx' = [t_idx EXCEPT ![t_parent[d]] =
                 CombineLoc(r_kind, t_tmp[d], t_idx[t_parent[d]], t_val[d], t_idx[d])]
  /\ t_critical' = t_critical \ {d}
  /\ t_state' = [t_state EXCEPT ![d] = "dead"]
  /\ UNCHANGED <<t_parent, t_custom_init, t_tmp>>
  /\ UNCHANGED <<bvars, ivars, dvars, svars, pvars, cvars>>

\* operator T() / get() of the root
T_Get == t_val[0]

\* getLoc() of the root
T_GetLoc == t_idx[0]

TreeIdle ==
  /\ t_state = [i \in TInst |-> "none"]
  /\ t_parent = [i \in TInst |-> NoParent]
  /\ t_val = [i \in TInst |-> 0]
  /\ t_idx = [i \in TInst |-> 0]
  /\ t_custom_init = [i \in TInst |-> 0]
  /\ t_tmp = [i \in TInst |-> 0]
  /\ t_critical = {}

\* the root has been constructed: ReduceMin(init_val), ReduceMax(init_val),
\* ReduceSum(init_val, initializer), ReduceMinLoc(init_val, init_idx),
\* ReduceMaxLoc(init_val, init_idx)
TreeInit ==
  /\ DataInit
  /\ t_state = [i \in TInst |-> IF i = 0 THEN "live" ELSE "none"]
  /\ t_parent = [i \in TInst |-> NoParent]
  /\ t_val = [i \in TInst |-> IF i = 0 THEN r_init_val ELSE 0]
  /\ t_idx = [i \in TInst |-> IF i = 0 /\ r_kind \in LocKinds THEN InitLoc ELSE 0]
  /\ \E initializer \in (IF r_kind = "sum" THEN {0, 1} ELSE {0}) :
       t_custom_init = [i \in TInst |-> IF i = 0 THEN initializer ELSE 0]
  /\ t_tmp = [i \in TInst |-> 0]
  /\ t_critical = {}

TreeNext ==
  \/ \E d \in Workers, other \in TInst : T_Copy(d, other)
  \/ \E d \in Workers, k \in Positions : T_Update(d, k)
  \/ \E d \in Workers : T_DtorEnter(d)
  \/ \E d \in Workers : T_DtorFold(d)

\* compiler-generated move constructor: d takes m_parent, m_val (m_idx,
\* m_custom_init) of other memberwise; other keeps its members and is
\* destroyed later like any other instance
T_Move(d, other) ==
  /\ d \in Workers
  /\ t_state[d] = "none"
  /\ t_state[other] = "live"
  /\ t_state' = [t_state EXCEPT ![d] = "live"]
  /\ t_parent' = [t_parent EXCEPT ![d] = t_parent[other]]
  /\ t_val' = [t_val EXCEPT ![d] = t_val[other]]
  /\ t_idx' = [t_idx EXCEPT ![d] = t_idx[other]]
  /\ t_custom_init' = [t_custom_init EXCEPT ![d] = t_custom_init[other]]
  /\ UNCHANGED <<t_tmp, t_critical>>
  /\ UNCHANGED <<bvars, ivars, dvars, svars, pvars, cvars>>

\* destructor of an instance whose m_parent is null: nothing is folded
T_DtorNoParent(d) ==
  /\ d \in Workers
  /\ t_state[d] = "live"
  /\ t_parent[d] = NoParent
  /\ t_state' = [t_state EXCEPT ![d] = "dead"]
  /\ UNCHANGED <<t_parent, t_val, t_idx, t_custom_init, t_tmp, t_critical>>
  /\ UNCHANGED <<bvars, ivars, dvars, svars, pvars, cvars>>

\* a client that also move-constructs reducers
MoveNext ==
  \/ \E d \in Workers, other \in TInst : T_Copy(d, other)
  \/ \E d \in Workers, other \in TInst : T_Move(d, other)
  \/ \E d \in Workers, k \in Positions : T_Update(d, k)
  \/ \E d \in Workers : T_DtorEnter(d)
  \/ \E d \in Workers : T_DtorFold(d)
  \/ \E d \in Workers : T_DtorNoParent(d)

----------------------------------------------------------------------------
(* Slot-pool reducers: ReduceMin / ReduceMax / ReduceSum / ReduceMinLoc /  *)
(* ReduceMaxLoc <omp_reduce_ordered, T>.  Instance 0 is the one            *)
(* constructed from the initial value, instance w the copy worker w        *)
(* updates through; worker w runs as thread w - 1.  The workers share out  *)
(* the positions of the array as they go: a position is handled once, by   *)
(* one worker.                                                             *)

SInst == 0..NumWorkers

\* omp_get_max_threads()
nthreads == NumWorkers

Slots == 0..(nthreads - 1)

\* every worker uses slot 0
tid_Zero(w) == 0

\* omp_get_thread_num() of worker w
tid(w) == w - 1

NoResult == [called |-> FALSE, op |-> "get", inst |-> 0, val |-> 0,
             complete |-> FALSE, again |-> FALSE]

RECURSIVE ScanMinMax(_, _, _)
\* for (i = 0; i < nthreads; ++i) Reduce()(m_reduced_val, *asT(i))
ScanMinMax(kind, reduced, i) ==
  IF i < nthreads
    THEN ScanMinMax(kind, Combine(kind, reduced, s_block[i]), i + 1)
    ELSE reduced

RECURSIVE ScanLoc(_, _, _, _)
\* for (i = 0; i < nthreads; ++i)
\*   Reduce()(m_reduced_val, m_reduced_idx, *asT(i), *asIndex(i)):
\* the index left in m_reduced_idx
ScanLoc(kind, reduced, idx, i) ==
  IF i < nthreads
    THEN ScanLoc(kind, Combine(kind, reduced, s_block[i]),
                 CombineLoc(kind, reduced, idx, s_block[i], s_idxblock[i]), i + 1)
    ELSE idx

RECURSIVE ScanSum(_, _)
\* for (i = 0; i < nthreads; ++i) tmp_reduced_val += m_blockdata[i]
ScanSum(tmp_reduced_val, i) ==
  IF i < nthreads
    THEN ScanSum(tmp_reduced_val + s_block[i], i + 1)
    ELSE tmp_reduced_val

\* ReduceSum::operator T() adding the slots to m_reduced_val itself
Reduced_Accumulate(c) ==
  IF r_kind = "sum" THEN s_init_val[c] + s_reduced_val[c] + ScanSum(0, 0)
  ELSE ScanMinMax(r_kind, s_reduced_val[c], 0)

\* m_reduced_val after operator T() or getLoc() on instance c
Reduced(c) ==
  IF r_kind = "sum" THEN s_init_val[c] + ScanSum(0, 0)
  ELSE ScanMinMax(r_kind, s_reduced_val[c], 0)

\* m_reduced_idx after operator T() or getLoc() on instance c
ReducedIdx(c) == ScanLoc(r_kind, s_reduced_val[c], s_reduced_idx[c], 0)

\* a copy constructor that does not take m_init_val from other
S_Copy_NoInitVal(c, other) ==
  /\ c \in Workers
  /\ s_state[c] = "none"
  /\ s_state[other] = "live"
  /\ s_state' = [s_state EXCEPT ![c] = "live"]
  /\ s_is_copy' = [s_is_copy EXCEPT ![c] = TRUE]
  /\ s_init_val' = [s_init_val EXCEPT ![c] = 0]
  /\ s_reduced_val' = [s_reduced_val EXCEPT ![c] = s_reduced_val[other]]
  /\ s_reduced_idx' = [s_reduced_idx EXCEPT ![c] = s_reduced_idx[other]]
  /\ UNCHANGED <<s_block, s_idxblock, s_pc, s_tmp, s_reads, s_got>>
  /\ UNCHANGED <<bvars, ivars, dvars, tvars, pvars, cvars>>

\* copy constructor: c becomes a copy of other
S_Copy(c, other) ==
  /\ c \in Workers
  /\ s_state[c] = "none"
  /\ s_state[other] = "live"
  /\ s_state' = [s_state EXCEPT ![c] = "live"]
  /\ s_is_copy' = [s_is_copy EXCEPT ![c] = TRUE]
  /\ s_init_val' = [s_init_val EXCEPT ![c] = s_init_val[other]]
  /\ s_reduced_val' = [s_reduced_val EXCEPT ![c] = s_reduced_val[other]]
  /\ s_reduced_idx' = [s_reduced_idx EXCEPT ![c] = s_reduced_idx[other]]
  /\ UNCHANGED <<s_block, s_idxblock, s_pc, s_tmp, s_reads, s_got>>
  /\ UNCHANGED <<bvars, ivars, dvars, tvars, pvars, cvars>>

\* an update by worker w, first half: reads the slot of its thread
S_Load(w, k) ==
  /\ s_state[w] = "live"
  /\ s_pc[w] = 0
  /\ IsNextPosition(k, r_done \cup {s_pc[v] : v \in Workers})
  /\ s_tmp' = [s_tmp EXCEPT ![w] = s_block[tid(w)]]
  /\ s_pc' = [s_pc EXCEPT ![w] = k]
  /\ UNCHANGED <<s_state, s_is_copy, s_init_val, s_reduced_val, s_reduced_idx,
                 s_block, s_idxblock, s_reads, s_got>>
  /\ UNCHANGED <<bvars, ivars, dvars, tvars, pvars, cvars>>

\* the second half of an update writing the slot of every thread
S_Store_AllSlots(w) ==
  /\ s_pc[w] # 0
  /\ s_block' = [t \in Slots |-> Combine(r_kind, s_tmp[w], r_arr[s_pc[w]])]
  /\ s_idxblock' = [t \in Slots |->
                      CombineLoc(r_kind, s_tmp[w], s_idxblock[tid(w)],
                                 r_arr[s_pc[w]], s_pc[w])]
  /\ r_done' = r_done \cup {s_pc[w]}
  /\ s_pc' = [s_pc EXCEPT ![w] = 0]
  /\ s_got' = NoResult
  /\ UNCHANGED <<s_state, s_is_copy, s_init_val, s_reduced_val, s_reduced_idx,
                 s_tmp, s_reads>>
  /\ UNCHANGED <<r_kind, r_init_val, r_arr>>
  /\ UNCHANGED <<bvars, ivars, tvars, pvars, cvars>>

\* an update by worker w, second half: writes the slot of its thread; the
\* results of earlier reads are out of date from here on
S_Store(w) ==
  /\ s_pc[w] # 0
  /\ s_block' = [s_block EXCEPT ![tid(w)] = Combine(r_kind, s_tmp[w], r_arr[s_pc[w]])]
  /\ s_idxblock' = [s_idxblock EXCEPT ![tid(w)] =
                      CombineLoc(r_kind, s_tmp[w], s_idxblock[tid(w)],
                                 r_arr[s_pc[w]], s_pc[w])]
  /\ r_done' = r_done \cup {s_pc[w]}
  /\ s_pc' = [s_pc EXCEPT ![w] = 0]
  /\ s_got' = NoResult
  /\ UNCHANGED <<s_state, s_is_copy, s_init_val, s_reduced_val, s_reduced_idx,
                 s_tmp, s_reads>>
  /\ UNCHANGED <<r_kind, r_init_val, r_arr>>
  /\ UNCHANGED <<bvars, ivars, tvars, pvars, cvars>>

\* the scan of operator T() and of getLoc() on instance c
Scan(c) ==
  /\ s_reads < MaxReads
  /\ s_reads' = s_reads + 1
  /\ s_reduced_val' = [s_reduced_val EXCEPT ![c] = Reduced(c)]
  /\ s_reduced_idx' = [s_reduced_idx EXCEPT ![c] = ReducedIdx(c)]

\* the record of a read on instance c that returned val
Result(o, c, v) ==
  [called |-> TRUE, op |-> o, inst |-> c, val |-> v, complete |-> AllDone,
   again |-> s_got.called /\ s_got.op = o /\ s_got.inst = c]

\* operator T() / get() on instance c
S_Get(c) ==
  /\ s_state[c] = "live"
  /\ Scan(c)
  /\ s_got' = Result("get", c, Reduced(c))
  /\ UNCHANGED <<s_state, s_is_copy, s_init_val, s_block, s_idxblock, s_pc, s_tmp>>
  /\ UNCHANGED <<bvars, ivars, dvars, tvars, pvars, cvars>>

\* getLoc() on instance c of a ReduceMinLoc / ReduceMaxLoc
S_GetLoc(c) ==
  /\ s_state[c] = "live"
  /\ r_kind \in LocKinds
  /\ Scan(c)
  /\ s_got' = Result("getLoc", c, ReducedIdx(c))
  /\ UNCHANGED <<s_state, s_is_copy, s_init_val, s_block, s_idxblock, s_pc, s_tmp>>
  /\ UNCHANGED <<bvars, ivars, dvars, tvars, pvars, cvars>>

\* destructor of a copy: m_is_copy, nothing is released
S_DestroyCopy(c) ==
  /\ s_state[c] = "live"
  /\ s_is_copy[c]
  /\ s_pc[c] = 0
  /\ s_state' = [s_state EXCEPT ![c] = "dead"]
  /\ s_got' = NoResult
  /\ UNCHANGED <<s_is_copy, s_init_val, s_reduced_val, s_reduced_idx, s_block,
                 s_idxblock, s_pc, s_tmp, s_reads>>
  /\ UNCHANGED <<bvars, ivars, dvars, tvars, pvars, cvars>>

SlotIdle ==
  /\ s_state = [i \in SInst |-> "none"]
  /\ s_is_copy = [i \in SInst |-> FALSE]
  /\ s_init_val = [i \in SInst |-> 0]
  /\ s_reduced_val = [i \in SInst |-> 0]
  /\ s_reduced_idx = [i \in SInst |-> 0]
  /\ s_block = [t \in Slots |-> 0]
  /\ s_idxblock = [t \in Slots |-> 0]
  /\ s_pc = [w \in Workers |-> 0]
  /\ s_tmp = [w \in Workers |-> 0]
  /\ s_reads = 0
  /\ s_got = NoResult

\* a constructor whose loop sets the slot of thread 0 only: the other slots
\* hold what the block held before, zero
SlotInit_FirstSlot ==
  /\ DataInit
  /\ s_state = [i \in SInst |-> IF i = 0 THEN "live" ELSE "none"]
  /\ s_is_copy = [i \in SInst |-> FALSE]
  /\ s_init_val = [i \in SInst |-> IF i = 0 /\ r_kind = "sum" THEN r_init_val ELSE 0]
  /\ s_reduced_val = [i \in SInst |-> IF i = 0 /\ r_kind # "sum" THEN r_init_val ELSE 0]
  /\ s_reduced_idx = [i \in SInst |-> IF i = 0 /\ r_kind \in LocKinds THEN InitLoc ELSE 0]
  /\ s_block = [t \in Slots |-> IF r_kind = "sum" \/ t # 0 THEN 0 ELSE r_init_val]
  /\ s_idxblock = [t \in Slots |-> IF r_kind \in LocKinds THEN InitLoc ELSE 0]
  /\ s_pc = [w \in Workers |-> 0]
  /\ s_tmp = [w \in Workers |-> 0]
  /\ s_reads = 0
  /\ s_got = NoResult

\* instance 0 has been constructed from init_val (and init_loc): every slot
\* holds init_val (and init_loc), for ReduceSum every slot holds 0 and
\* m_reduced_val is 0
SlotInit ==
  /\ DataInit
  /\ s_state = [i \in SInst |-> IF i = 0 THEN "live" ELSE "none"]
  /\ s_is_copy = [i \in SInst |-> FALSE]
  /\ s_init_val = [i \in SInst |-> IF i = 0 /\ r_kind = "sum" THEN r_init_val ELSE 0]
  /\ s_reduced_val = [i \in SInst |-> IF i = 0 /\ r_kind # "sum" THEN r_init_val ELSE 0]
  /\ s_reduced_idx = [i \in SInst |-> IF i = 0 /\ r_kind \in LocKinds THEN InitLoc ELSE 0]
  /\ s_block = [t \in Slots |-> IF r_kind = "sum" THEN 0 ELSE r_init_val]
  /\ s_idxblock = [t \in Slots |-> IF r_kind \in LocKinds THEN InitLoc ELSE 0]
  /\ s_pc = [w \in Workers |-> 0]
  /\ s_tmp = [w \in Workers |-> 0]
  /\ s_reads = 0
  /\ s_got = NoResult

SlotNext ==
  \/ \E c \in Workers, other \in SInst : S_Copy(c, other)
  \/ \E w \in Workers, k \in Positions : S_Load(w, k)
  \/ \E w \in Workers : S_Store(w)
  \/ \E c \in SInst : S_Get(c)
  \/ \E c \in SInst : S_GetLoc(c)
  \/ \E c \in Workers : S_DestroyCopy(c)

----------------------------------------------------------------------------
(* The reduction id pool and the life of slot-pool reducer objects: the     *)
(* constructor taking the initial value, the copy constructor and the       *)
(* destructor of the <omp_reduce_ordered, T> classes.                       *)

\* the reducer objects of the client
PInst == 0..NumWorkers

\* the reduction ids of the pool
PoolIds == 0..(MaxIds - 1)

NoObject ==
  [state |-> "none", kind |-> "min", m_is_copy |-> FALSE, m_myID |-> 0,
   m_init_val |-> 0, m_reduced_val |-> 0, m_reduced_idx |-> 0]

FreeId ==
  [used |-> FALSE, block |-> [t \in Slots |-> 0], idxblock |-> [t \in Slots |-> 0]]

\* some id of the pool is not in use
IdAvailable == \E id \in PoolIds : ~p_pool[id].used

\* getCPUReductionId(): the first id that is not in use
getCPUReductionId ==
  CHOOSE id \in PoolIds :
    ~p_pool[id].used /\ \A other \in PoolIds : ~p_pool[other].used => id <= other

\* the object the constructor taking init_val (and init_loc) leaves
Constructed(kind, id) ==
  [state |-> "live", kind |-> kind, m_is_copy |-> FALSE, m_myID |-> id,
   m_init_val |-> IF kind = "sum" THEN InitVal ELSE 0,
   m_reduced_val |-> IF kind = "sum" THEN 0 ELSE InitVal,
   m_reduced_idx |-> IF kind \in LocKinds THEN InitLoc ELSE 0]

\* the blocks of an id after the loop of the constructor
InitBlocks(kind) ==
  [used |-> TRUE,
   block |-> [t \in Slots |-> IF kind = "sum" THEN 0 ELSE InitVal],
   idxblock |-> [t \in Slots |-> IF kind \in LocKinds THEN InitLoc ELSE 0]]

\* ReduceMin(T init_val) and the like: takes an id from the pool and sets
\* every slot of its block
P_Construct(c, kind) ==
  /\ p_inst[c].state = "none"
  /\ IdAvailable
  /\ p_inst' = [p_inst EXCEPT ![c] = Constructed(kind, getCPUReductionId)]
  /\ p_pool' = [p_pool EXCEPT ![getCPUReductionId] = InitBlocks(kind)]
  /\ p_acquired' = [p_acquired EXCEPT ![c] = @ + 1]
  /\ UNCHANGED <<p_released, p_bad_release>>
  /\ UNCHANGED <<bvars, ivars, dvars, tvars, svars, cvars>>

\* copy constructor: the id and the cached value of other, m_is_copy(true)
P_Copy(c, other) ==
  /\ p_inst[c].state = "none"
  /\ p_inst[other].state = "live"
  /\ p_inst' = [p_inst EXCEPT ![c] = [p_inst[other] EXCEPT !.m_is_copy = TRUE]]
  /\ UNCHANGED <<p_pool, p_acquired, p_released, p_bad_release>>
  /\ UNCHANGED <<bvars, ivars, dvars, tvars, svars, cvars>>

\* the destructor without "if (m_is_copy) return": every object releases
releases_AnyObject(c) == TRUE

\* the destructor calls releaseCPUReductionId(m_myID)
releases(c) == ~p_inst[c].m_is_copy

\* destructor: a copy returns at once, any other object releases its id
P_Destroy(c) ==
  /\ p_inst[c].state = "live"
  /\ p_inst' = [p_inst EXCEPT ![c].state = "dead"]
  /\ IF releases(c)
       THEN /\ p_pool' = [p_pool EXCEPT ![p_inst[c].m_myID].used = FALSE]
            /\ p_released' = [p_released EXCEPT ![c] = @ + 1]
            /\ p_bad_release' =
                 (p_bad_release \/ ~p_pool[p_inst[c].m_myID].used
                                \/ p_inst[c].m_is_copy)
       ELSE UNCHANGED <<p_pool, p_released, p_bad_release>>
  /\ UNCHANGED p_acquired
  /\ UNCHANGED <<bvars, ivars, dvars, tvars, svars, cvars>>

PoolIdle ==
  /\ p_inst = [c \in PInst |-> NoObject]
  /\ p_pool = [id \in PoolIds |-> FreeId]
  /\ p_acquired = [c \in PInst |-> 0]
  /\ p_released = [c \in PInst |-> 0]
  /\ p_bad_release = FALSE

PoolNext ==
  \/ \E c \in PInst, kind \in Kinds : P_Construct(c, kind)
  \/ \E c, other \in PInst : P_Copy(c, other)
  \/ \E c \in PInst : P_Destroy(c)

----------------------------------------------------------------------------
(* A caller that adds List segments from a buffer it owns.                  *)

\* the arrays in memory: the buffer and one array for every segment
CArrays == 0..MaxSegs

\* the buffer of the caller
Buffer == 0

\* what the caller writes to its buffer
BufferContents == {Run(0, BufLen), Sparse(0, BufLen), Run(RANGE_ALIGN, BufLen)}

NoArray == [state |-> "none", vals |-> <<>>]

\* the array the next call of new[] returns
NewArray == Len(c_iset.m_segments) + 1

\* UnstructuredISet(indx, len) keeping the pointer of the caller
ListOf_Alias(indx, len) ==
  [seg |-> [m_type |-> "_Unstructured_", m_indx |-> indx, m_len |-> len],
   mem |-> c_mem]

\* UnstructuredISet(indx, len): allocates an array of len values and copies
\* the values at indx into it
ListOf(indx, len) ==
  [seg |-> [m_type |-> "_Unstructured_", m_indx |-> NewArray, m_len |-> len],
   mem |-> [c_mem EXCEPT ![NewArray] =
              [state |-> "live", vals |-> SubSeq(c_mem[indx].vals, 1, len)]]]

\* the caller fills its buffer
C_Write(vals) ==
  /\ c_mem[Buffer].state = "live"
  /\ c_mem[Buffer].vals # vals
  /\ c_mem' = [c_mem EXCEPT ![Buffer].vals = vals]
  /\ UNCHANGED <<c_iset, c_expect>>
  /\ UNCHANGED <<bvars, ivars, dvars, tvars, svars, pvars>>

\* a.addUnstructuredIndices(indx, len) with indx the buffer of the caller
C_AddUnstructuredIndices(len) ==
  /\ c_mem[Buffer].state = "live"
  /\ Len(c_iset.m_segments) < MaxSegs
  /\ LET new_is == ListOf(Buffer, len)
     IN  /\ c_mem' = new_is.mem
         /\ c_iset' = [m_len      |-> c_iset.m_len + new_is.seg.m_len,
                       m_segments |-> Append(c_iset.m_segments, new_is.seg)]
  /\ c_expect' = c_expect \o SubSeq(c_mem[Buffer].vals, 1, len)
  /\ UNCHANGED <<bvars, ivars, dvars, tvars, svars, pvars>>

\* the caller frees its buffer
C_Free ==
  /\ c_mem[Buffer].state = "live"
  /\ c_mem' = [c_mem EXCEPT ![Buffer] = [state |-> "freed", vals |-> <<>>]]
  /\ UNCHANGED <<c_iset, c_expect>>
  /\ UNCHANGED <<bvars, ivars, dvars, tvars, svars, pvars>>

RECURSIVE C_Flatten(_)
\* the indices the segments enumerate, read from the arrays they point to
C_Flatten(segs) ==
  IF segs = <<>> THEN <<>>
  ELSE c_mem[Head(segs).m_indx].vals \o C_Flatten(Tail(segs))

CallerIdle ==
  /\ c_mem = [a \in CArrays |-> NoArray]
  /\ c_iset = EmptyISet
  /\ c_expect = <<>>

\* the caller has allocated its buffer and constructed an empty index set
CallerInit ==
  /\ c_mem = [a \in CArrays |->
               IF a = Buffer THEN [state |-> "live", vals |-> Run(0, BufLen)]
               ELSE NoArray]
  /\ c_iset = EmptyISet
  /\ c_expect = <<>>

CallerNext ==
  \/ \E vals \in BufferContents : C_Write(vals)
  \/ \E len \in 1..BufLen : C_AddUnstructuredIndices(len)
  \/ C_Free

----------------------------------------------------------------------------
(* Inputs of the builder.                                                  *)

\* the values a piece starts with: an aligned value, the value after it, the
\* value before the next aligned value
Starts == {0, 1, RANGE_ALIGN - 1}

\* the lengths of a piece: a single value, a pair, a long piece
PieceLens == {1, 2, LongRun}

Pieces == {Run(s, n) : s \in Starts, n \in PieceLens}
            \cup {Sparse(s, n) : s \in Starts, n \in PieceLens}

RECURSIVE Concats(_)
\* the arrays made of n pieces, one after the other
Concats(n) ==
  IF n = 0 THEN {<<>>}
  ELSE {A \o P : A \in Concats(n - 1), P \in Pieces}

Inputs == UNION {Concats(n) : n \in 0..MaxPieces}

\* 0..63 followed by 100..163
TwoRuns == Run(0, 64) \o Run(100, 64)

\* inputs of the size the alignment of 64 is meant for
LargeInputs == {TwoRuns, Run(0, 64) \o Run(128, 64), Sparse(0, 64),
                Run(1, 64) \o Sparse(0, 8), Run(0, 4)}

BuilderIdle(A) ==
  /\ indices_in = A
  /\ length = Len(A)
  /\ pc = "start"
  /\ ii = 0
  /\ inrange = -1
  /\ scanVal = 0
  /\ sliceCount = 0
  /\ docount = 0
  /\ dobegin = 0
  /\ hindex = EmptyISet

BuildInit ==
  /\ \E A \in Inputs : BuilderIdle(A)
  /\ ISetIdle /\ DataIdle /\ TreeIdle /\ SlotIdle
  /\ PoolIdle /\ CallerIdle

BuildNext ==
  \/ SkipSmall
  \/ BeginStatistics
  \/ StatStep
  \/ BeginBuild
  \/ RejectCompression
  \/ BuildStep
  \/ EndBuild

SpecBuild == BuildInit /\ [][BuildNext]_vars

LargeInit ==
  /\ \E A \in LargeInputs : BuilderIdle(A)
  /\ ISetIdle /\ DataIdle /\ TreeIdle /\ SlotIdle
  /\ PoolIdle /\ CallerIdle

SpecLarge == LargeInit /\ [][BuildNext]_vars

\* buildHybridISet(indices_in, length) called with a length that exceeds the
\* extent of the array by one
OverrunInit ==
  /\ \E A \in Inputs :
       /\ indices_in = A
       /\ length = Len(A) + 1
       /\ pc = "start"
       /\ ii = 0
       /\ inrange = -1
       /\ scanVal = 0
       /\ sliceCount = 0
       /\ docount = 0
       /\ dobegin = 0
       /\ hindex = EmptyISet
  /\ ISetIdle /\ DataIdle /\ TreeIdle /\ SlotIdle
  /\ PoolIdle /\ CallerIdle

SpecOverrun == OverrunInit /\ [][BuildNext]_vars

ContainerInit ==
  BuilderIdle(<<>>) /\ ISetIdle /\ DataIdle /\ TreeIdle /\ SlotIdle
  /\ PoolIdle /\ CallerIdle

SpecISet == ContainerInit /\ [][ISetNext]_vars

SpecPush == ContainerInit /\ [][PushNext]_vars

SpecUnknown == ContainerInit /\ [][UnknownNext]_vars

TreeMergeInit ==
  BuilderIdle(<<>>) /\ ISetIdle /\ TreeInit /\ SlotIdle
  /\ PoolIdle /\ CallerIdle

SpecTree == TreeMergeInit /\ [][TreeNext]_vars

SpecMove == TreeMergeInit /\ [][MoveNext]_vars

SlotPoolInit ==
  BuilderIdle(<<>>) /\ ISetIdle /\ TreeIdle /\ SlotInit
  /\ PoolIdle /\ CallerIdle

SpecSlot == SlotPoolInit /\ [][SlotNext]_vars

\* a root of each flavor has been constructed from the same arguments
FreshInit ==
  BuilderIdle(<<>>) /\ ISetIdle /\ TreeInit /\ SlotInit
  /\ PoolIdle /\ CallerIdle

\* a client that copies, reads and destroys reducers and updates none
FreshNext ==
  \/ \E d \in Workers, other \in TInst : T_Copy(d, other)
  \/ \E d \in Workers : T_DtorEnter(d)
  \/ \E d \in Workers : T_DtorFold(d)
  \/ \E c \in Workers, other \in SInst : S_Copy(c, other)
  \/ \E c \in SInst : S_Get(c)
  \/ \E c \in SInst : S_GetLoc(c)
  \/ \E c \in Workers : S_DestroyCopy(c)

SpecFresh == FreshInit /\ [][FreshNext]_vars

\* a min / max / minloc / maxloc reducer of one of the two flavors has been
\* constructed
MinMaxInit == (TreeMergeInit \/ SlotPoolInit) /\ r_kind # "sum"

\* the workers update, copy, read and destroy reducers of the flavor that has
\* been constructed
MinMaxNext == TreeNext \/ SlotNext

SpecMinMax == MinMaxInit /\ [][MinMaxNext]_vars

PoolInit ==
  BuilderIdle(<<>>) /\ ISetIdle /\ DataIdle /\ TreeIdle /\ SlotIdle
  /\ PoolIdle /\ CallerIdle

SpecPool == PoolInit /\ [][PoolNext]_vars

BufferInit ==
  BuilderIdle(<<>>) /\ ISetIdle /\ DataIdle /\ TreeIdle /\ SlotIdle
  /\ PoolIdle /\ CallerInit

SpecBuffer == BufferInit /\ [][CallerNext]_vars

----------------------------------------------------------------------------
(* Properties of the builder.                                              *)

IsRange(seg) == seg.m_type = "_Range_"

IsList(seg) == seg.m_type = "_Unstructured_"

NumSegments(hs) == Len(hs.m_segments)

Compressed == pc = "done" /\ docount < Cutoff(length) /\ length > RANGE_MIN_LENGTH

\* C1: the segments of the built index set, enumerated in segment order,
\* give back the index array, whichever branch the builder took
C1_EnumerationEquivalence ==
  pc = "done" => Flatten(hindex.m_segments) = indices_in

\* a compressed result holding a list segment and a range segment
C1_Witness ==
  /\ Compressed
  /\ \E k \in 1..NumSegments(hindex) : IsRange(hindex.m_segments[k])
  /\ \E k \in 1..NumSegments(hindex) : IsList(hindex.m_segments[k])
  /\ Flatten(hindex.m_segments) = indices_in

\* C2: the length of the built index set is the length of the index array
C2_LengthPreservation ==
  pc = "done" => hindex.m_len = Len(indices_in)

C2_Witness ==
  /\ Compressed
  /\ NumSegments(hindex) >= 3
  /\ hindex.m_len = Len(indices_in)

\* C8 as stated: 0..63 followed by 100..163 gives the two range segments
\* [0,64) and [100,164) and no list segment
C8_TwoRanges ==
  (pc = "done" /\ indices_in = TwoRuns)
    => hindex.m_segments = <<RangeISet(0, 64), RangeISet(100, 164)>>

\* C8 amended: 0..63 followed by 100..163 gives the range [0,64), the list
\* 100..127 and the range [128,164), as 100 is not a multiple of 64
C8_RangeListRange ==
  (pc = "done" /\ indices_in = TwoRuns)
    => hindex.m_segments = <<RangeISet(0, 64), UnstructuredISet(Run(100, 28)),
                             RangeISet(128, 164)>>

C8_Witness ==
  /\ pc = "done"
  /\ indices_in = TwoRuns
  /\ docount < Cutoff(length)
  /\ NumSegments(hindex) = 3

NoSuccessorPair(A) == \A k \in 1..(Len(A) - 1) : A[k + 1] # A[k] + 1

\* C9: an array in which no index is followed by its successor is built as
\* one list segment holding the whole array
C9_NonCompressible ==
  (pc = "done" /\ NoSuccessorPair(indices_in))
    => hindex.m_segments = <<UnstructuredISet(indices_in)>>

\* such an array, long enough to have gone through the statistics pass
C9_Witness ==
  /\ pc = "done"
  /\ NoSuccessorPair(indices_in)
  /\ length > RANGE_MIN_LENGTH
  /\ docount > 0
  /\ hindex.m_segments = <<UnstructuredISet(indices_in)>>

\* C10: an array shorter than RANGE_MIN_LENGTH is built as one list segment
\* over the whole array, with no range segment
C10_SmallNotCompressed ==
  (pc = "done" /\ length < RANGE_MIN_LENGTH)
    => hindex.m_segments = <<UnstructuredISet(indices_in)>>

\* an aligned run short of RANGE_MIN_LENGTH whose estimate would have been
\* below the cutoff
C10_Witness ==
  /\ pc = "done"
  /\ length < RANGE_MIN_LENGTH
  /\ indices_in = Run(0, length)
  /\ 3 < Cutoff(length)
  /\ hindex.m_segments = <<UnstructuredISet(indices_in)>>

\* C11 as stated: an array of length 0 is built as an index set with no
\* segment and length 0
C11_EmptyInput ==
  (pc = "done" /\ length = 0)
    => (NumSegments(hindex) = 0 /\ hindex.m_len = 0)

\* C12: every range segment of a built index set begins at a multiple of
\* RANGE_ALIGN
C12_AlignedRanges ==
  pc = "done" =>
    \A k \in 1..NumSegments(hindex) :
      IsRange(hindex.m_segments[k])
        => hindex.m_segments[k].m_begin % RANGE_ALIGN = 0

\* a run that starts one short of an aligned value: the range begins at the
\* aligned value and the value before it went to a list
C12_Witness ==
  /\ Compressed
  /\ \E k \in 1..NumSegments(hindex) :
       /\ IsRange(hindex.m_segments[k])
       /\ hindex.m_segments[k].m_begin = RANGE_ALIGN
  /\ \E k \in 1..NumSegments(hindex) :
       /\ IsList(hindex.m_segments[k])
       /\ hindex.m_segments[k].m_indx # <<>>
       /\ hindex.m_segments[k].m_indx[Len(hindex.m_segments[k].m_indx)]
            = RANGE_ALIGN - 1

----------------------------------------------------------------------------
(* Properties of the reducers.                                             *)

AllDuplicatesDestroyed == \A d \in Workers : t_state[d] = "dead"

\* C3: once every duplicate of a tree-merge reducer constructed from an
\* initial value has been destroyed, get() on the root is the sequential
\* min / max / sum of the initial value and the whole array
C3_TreeMerge ==
  (AllDuplicatesDestroyed /\ AllDone /\ t_custom_init[0] = 0)
    => T_Get = SeqReduce(r_kind, r_init_val, r_arr)

\* a sum to which every duplicate has contributed
C3_Witness ==
  /\ AllDuplicatesDestroyed
  /\ AllDone
  /\ r_kind = "sum"
  /\ t_custom_init[0] = 0
  /\ \A d \in Workers : t_val[d] > 0
  /\ T_Get = SeqReduce(r_kind, r_init_val, r_arr)

\* C4: a get() of a slot-pool reducer performed after all updates returns the
\* sequential min / max of the initial value and the whole array, for a sum
\* the initial value plus the sum of the whole array
C4_SlotPool ==
  (s_got.called /\ s_got.op = "get" /\ s_got.complete)
    => s_got.val = SeqReduce(r_kind, r_init_val, r_arr)

\* a sum to which every thread has contributed
C4_Witness ==
  /\ s_got.called
  /\ s_got.op = "get"
  /\ s_got.complete
  /\ r_kind = "sum"
  /\ \A t \in Slots : s_block[t] > 0
  /\ s_got.val = SeqReduce(r_kind, r_init_val, r_arr)

\* C13: a read (get() or getLoc()) that follows a read of the same kind on
\* the same slot-pool instance, with no update and no destruction of a copy
\* in between, returns what the earlier read returned
C13_IdempotentRead ==
  [][s_got'.again => s_got'.val = s_got.val]_vars

\* a sum read twice after all updates
C13_Witness ==
  /\ s_got.called
  /\ s_got.again
  /\ s_got.complete
  /\ r_kind = "sum"
  /\ s_got.val > r_init_val
  /\ s_got.val = s_reduced_val[s_got.inst]

\* the positions of the array that hold the reduced value
ExtremePositions ==
  {k \in Positions : r_arr[k] = SeqReduce(r_kind, r_init_val, r_arr)}

\* the smallest of them
FirstLoc == CHOOSE k \in ExtremePositions : \A j \in ExtremePositions : k <= j

\* a min-loc or max-loc reduction whose extremal value beats the initial value
\* and is found at two positions or more
TiedExtreme ==
  /\ r_kind \in LocKinds
  /\ SeqReduce(r_kind, r_init_val, r_arr) # r_init_val
  /\ Cardinality(ExtremePositions) >= 2

\* C14 as stated: with the extremal value at several positions, getLoc() on
\* the root of a tree-merge reducer is the smallest of these positions once
\* every duplicate has been destroyed, in whatever order
C14_TieBreakTree ==
  (AllDuplicatesDestroyed /\ AllDone /\ TiedExtreme) => T_GetLoc = FirstLoc

\* C15 as stated: with the extremal value at several positions, getLoc() on
\* a slot-pool reducer after all updates is the smallest of these positions,
\* whichever thread handled which position
C15_TieBreakSlot ==
  (s_got.called /\ s_got.op = "getLoc" /\ s_got.complete /\ TiedExtreme)
    => s_got.val = FirstLoc

----------------------------------------------------------------------------
(* Properties of the container.                                            *)

Live(i) == isets[i].live

\* C5: the cached length of every live index set is the sum of the lengths
\* of the segments it holds
C5_CachedLength ==
  \A i \in ISets : Live(i) => isets[i].m_len = SumLengths(isets[i].m_segments)

\* two index sets of different lengths, one of them with a range and a list
C5_Witness ==
  \E i, j \in ISets :
    /\ Live(i) /\ Live(j)
    /\ isets[i].m_len = 15
    /\ isets[j].m_len = 5
    /\ \E k \in 1..NumSegments(isets[i]) : IsRange(isets[i].m_segments[k])
    /\ \E k \in 1..NumSegments(isets[i]) : IsList(isets[i].m_segments[k])

SameIndices(x, y) == Flatten(x.m_segments) = Flatten(y.m_segments)

Created(h) == {a \in Addrs : h[a] # "none"}

Distinct(q) == \A k, m \in 1..Len(q) : k # m => q[k] # q[m]

\* the objects at ptrs did not exist in h and are alive in g, each of them once
Fresh(ptrs, h, g) ==
  /\ Distinct(ptrs)
  /\ \A k \in 1..Len(ptrs) : h[ptrs[k]] = "none" /\ g[ptrs[k]] = "live"

\* no index set other than those in ks has changed
OthersUnchanged(ks) == \A k \in ISets \ ks : isets'[k] = isets[k]

\* C16: a copy-constructed index set holds the segments of its source, in
\* the same order and with the same length, in objects that did not exist
\* before, and leaves the source as it was; adding a segment to one index
\* set afterwards changes no other index set and no object they hold
C16_DeepCopy ==
  [][/\ last_op'.op = "copy" =>
          /\ isets'[last_op'.a].m_segments = isets[last_op'.b].m_segments
          /\ isets'[last_op'.a].m_len = isets[last_op'.b].m_len
          /\ Len(isets'[last_op'.a].m_ptrs) = Len(isets[last_op'.b].m_ptrs)
          /\ Fresh(isets'[last_op'.a].m_ptrs, heap, heap')
          /\ OthersUnchanged({last_op'.a})
          /\ \A a \in Created(heap) : heap'[a] = heap[a]
     /\ last_op'.op \in {"add", "front"} =>
          /\ OthersUnchanged({last_op'.a})
          /\ \A a \in Created(heap) : heap'[a] = heap[a]
    ]_vars

\* a copy of an index set with a range and a list; both are alive
C16_Witness ==
  /\ last_op.op = "copy"
  /\ isets[last_op.b].live
  /\ NumSegments(isets[last_op.a]) = 2
  /\ IsRange(isets[last_op.a].m_segments[1])
  /\ IsList(isets[last_op.a].m_segments[2])
  /\ isets[last_op.a].m_segments = isets[last_op.b].m_segments
  /\ Elems(isets[last_op.a].m_ptrs) \cap Elems(isets[last_op.b].m_ptrs) = {}

\* C17: a = b with a and b distinct leaves in a new copies of the segments
\* of b, in the order and with the length of b, leaves b as it was and
\* deletes every segment a held, once; a = a changes nothing
C17_CopyAndSwap ==
  [][last_op'.op = "assign" =>
       IF last_op'.a # last_op'.b
         THEN /\ isets'[last_op'.a].m_segments = isets[last_op'.b].m_segments
              /\ isets'[last_op'.a].m_len = isets[last_op'.b].m_len
              /\ Len(isets'[last_op'.a].m_ptrs) = Len(isets[last_op'.b].m_ptrs)
              /\ Fresh(isets'[last_op'.a].m_ptrs, heap, heap')
              /\ OthersUnchanged({last_op'.a})
              /\ \A a \in Created(heap) :
                   heap'[a] = IF a \in Elems(isets[last_op'.a].m_ptrs)
                                THEN "deleted" ELSE heap[a]
              /\ \A a \in Elems(isets[last_op'.a].m_ptrs) : heap[a] = "live"
              /\ double_delete' = double_delete
         ELSE /\ isets' = isets
              /\ heap' = heap
              /\ double_delete' = double_delete
    ]_vars

\* an assignment that has replaced segments: the target holds what the source
\* holds, in other objects, and objects have been deleted
C17_Witness ==
  /\ last_op.op = "assign"
  /\ last_op.a # last_op.b
  /\ NumSegments(isets[last_op.a]) >= 1
  /\ isets[last_op.a].m_segments = isets[last_op.b].m_segments
  /\ Elems(isets[last_op.a].m_ptrs) \cap Elems(isets[last_op.b].m_ptrs) = {}
  /\ \E a \in Addrs : heap[a] = "deleted"
  /\ ~double_delete

\* C18: a.swap(b) leaves in a the objects, the order and the length b had and
\* in b those a had; no object is created or deleted
C18_SwapExchanges ==
  [][last_op'.op = "swap" =>
       /\ isets'[last_op'.a].m_ptrs = isets[last_op'.b].m_ptrs
       /\ isets'[last_op'.a].m_segments = isets[last_op'.b].m_segments
       /\ isets'[last_op'.a].m_len = isets[last_op'.b].m_len
       /\ isets'[last_op'.b].m_ptrs = isets[last_op'.a].m_ptrs
       /\ isets'[last_op'.b].m_segments = isets[last_op'.a].m_segments
       /\ isets'[last_op'.b].m_len = isets[last_op'.a].m_len
       /\ OthersUnchanged({last_op'.a, last_op'.b})
       /\ heap' = heap
       /\ double_delete' = double_delete
    ]_vars

\* a swap of an index set of two segments with an empty one
C18_Witness ==
  /\ last_op.op = "swap"
  /\ last_op.a # last_op.b
  /\ NumSegments(isets[last_op.a]) = 0
  /\ isets[last_op.a].m_len = 0
  /\ NumSegments(isets[last_op.b]) = 2
  /\ isets[last_op.b].m_len = 15

KnownSegs(segs) == SelectSeq(segs, Known)

\* the objects held in segments of an unknown type
UnknownObjs(hs) ==
  {hs.m_ptrs[k] : k \in {m \in 1..Len(hs.m_segments) : ~Known(hs.m_segments[m])}}

NumUnknown(hs) == Len(hs.m_segments) - Len(KnownSegs(hs.m_segments))

\* C20: with a segment of an unknown type in an index set, a copy of the
\* index set holds the other segments, in order, and its length is the sum of
\* their lengths; print writes a line for every segment and the destructor
\* deletes every other segment, those behind the unknown one too; each of the
\* three reports the unknown segment and leaves its object as it was
C20_UnknownSkipped ==
  [][/\ last_op'.op = "copy" =>
          LET other == isets[last_op'.b]
              this  == isets'[last_op'.a]
          IN  /\ this.m_segments = KnownSegs(other.m_segments)
              /\ this.m_len = SumLengths(KnownSegs(other.m_segments))
              /\ Len(last_op'.out) = NumUnknown(other)
              /\ isets'[last_op'.b] = other
              /\ \A a \in UnknownObjs(other) : heap'[a] = heap[a]
     /\ last_op'.op = "print" =>
          LET this == isets[last_op'.a]
          IN  /\ Len(last_op'.out) = Len(this.m_segments)
              /\ \A k \in 1..Len(this.m_segments) :
                   IF Known(this.m_segments[k])
                     THEN last_op'.out[k] = this.m_segments[k]
                     ELSE last_op'.out[k] = "print: case not implemented"
              /\ isets' = isets
              /\ heap' = heap
     /\ last_op'.op = "destroy" =>
          LET this == isets[last_op'.a]
          IN  /\ Len(last_op'.out) = NumUnknown(this)
              /\ \A k \in 1..Len(this.m_segments) :
                   IF Known(this.m_segments[k])
                     THEN heap'[this.m_ptrs[k]] = "deleted"
                     ELSE heap'[this.m_ptrs[k]] = heap[this.m_ptrs[k]]
    ]_vars

\* a copy of an index set that holds a segment of the disabled kind in front
\* of a range: the copy holds the range only, and the case has been reported
C20_Witness ==
  /\ last_op.op = "copy"
  /\ Len(last_op.out) = 1
  /\ NumSegments(isets[last_op.b]) = 2
  /\ ~Known(isets[last_op.b].m_segments[1])
  /\ isets[last_op.b].m_len = 15
  /\ isets[last_op.a].m_segments = <<RangeISet(5, 10)>>
  /\ isets[last_op.a].m_len = 5
  /\ heap[isets[last_op.b].m_ptrs[1]] = "live"

\* worker w completes an update in this step
Updates(w) == s_pc[w] # 0 /\ s_pc'[w] = 0

\* C21: an update of the slot-pool reducer by the worker with thread id t
\* writes slot t of the block (and of the index block) only: the slots of the
\* other threads and m_reduced_val, m_reduced_idx of every instance stay as
\* they were
C21_SlotIsolation ==
  [][\A w \in Workers : Updates(w) =>
       /\ \A t \in Slots \ {tid(w)} :
            s_block'[t] = s_block[t] /\ s_idxblock'[t] = s_idxblock[t]
       /\ s_reduced_val' = s_reduced_val
       /\ s_reduced_idx' = s_reduced_idx
    ]_vars

\* two workers have added different amounts to their slots of a ReduceSum,
\* and no instance has been read
C21_Witness ==
  /\ r_kind = "sum"
  /\ s_block[0] # 0
  /\ s_block[1] # 0
  /\ s_block[0] # s_block[1]
  /\ s_reads = 0
  /\ \A w \in Workers : s_pc[w] = 0

\* the objects alive that hold id and are not copies
Holders(id) ==
  {c \in PInst : /\ p_inst[c].state = "live"
                 /\ ~p_inst[c].m_is_copy
                 /\ p_inst[c].m_myID = id}

\* C22: an object constructed from an initial value has taken its id once
\* and gives it back once, in its destructor; a copy, or a copy of a copy,
\* neither takes nor gives back an id; an id is in use exactly while the one
\* object that took it is alive
C22_AcquireReleasePairing ==
  /\ ~p_bad_release
  /\ \A c \in PInst :
       /\ p_acquired[c] =
            (IF p_inst[c].state # "none" /\ ~p_inst[c].m_is_copy THEN 1 ELSE 0)
       /\ p_released[c] =
            (IF p_inst[c].state = "dead" /\ ~p_inst[c].m_is_copy THEN 1 ELSE 0)
  /\ \A id \in PoolIds :
       Cardinality(Holders(id)) = (IF p_pool[id].used THEN 1 ELSE 0)

\* an object, a copy of it and a copy of that copy; the copies have been
\* destroyed and the id is still held by the first object
C22_Witness ==
  \E a, b, c \in PInst :
    /\ a # b /\ b # c /\ a # c
    /\ p_inst[a].state = "live" /\ ~p_inst[a].m_is_copy
    /\ p_inst[b].state = "dead" /\ p_inst[b].m_is_copy
    /\ p_inst[c].state = "dead" /\ p_inst[c].m_is_copy
    /\ p_inst[b].m_myID = p_inst[a].m_myID
    /\ p_inst[c].m_myID = p_inst[a].m_myID
    /\ p_pool[p_inst[a].m_myID].used
    /\ p_released = [x \in PInst |-> 0]

\* the destructor of duplicate d completes its fold in this step
Folds(d) == t_state[d] = "critical" /\ t_state'[d] = "dead"

\* m_val and m_idx of every instance but those in ds stay as they were
TreeOthersUnchanged(ds) ==
  \A i \in TInst \ ds : t_val'[i] = t_val[i] /\ t_idx'[i] = t_idx[i]

\* C23: an update on a duplicate changes m_val (and m_idx) of that duplicate
\* only; the root changes only in the step in which the destructor of a
\* duplicate folds, and it then holds the combination of the value it held
\* and the value of that duplicate
C23_IsolatedUntilMerge ==
  [][/\ r_done' # r_done =>
          \E d \in Workers : t_state[d] = "live" /\ TreeOthersUnchanged({d})
     /\ \A d \in Workers : Folds(d) =>
          /\ t_parent[d] = 0
          /\ t_val'[0] = Combine(r_kind, t_val[0], t_val[d])
          /\ TreeOthersUnchanged({0})
     /\ (t_val'[0] # t_val[0] \/ t_idx'[0] # t_idx[0]) =>
          \E d \in Workers : Folds(d)
    ]_vars

\* two duplicates hold different values after their updates and the root
\* still holds the initial value
C23_Witness ==
  /\ r_kind = "min"
  /\ t_state[1] = "live"
  /\ t_state[2] = "live"
  /\ t_val[1] # t_val[2]
  /\ t_val[0] = r_init_val
  /\ r_done # {}

\* C24: at most one destructor at a time is between the read and the write
\* of its fold, and the value a fold has read from the parent is the value
\* the parent still holds when the fold writes: no fold overwrites another
C24_MutualExclusion ==
  [][/\ Cardinality({d \in Workers : t_state'[d] = "critical"}) <= 1
     /\ \A d \in Workers : Folds(d) =>
          /\ t_tmp[d] = t_val[t_parent[d]]
          /\ t_val'[t_parent[d]] = Combine(r_kind, t_val[t_parent[d]], t_val[d])
    ]_vars

\* the destructor of one duplicate is inside the critical section while the
\* other duplicate, all updates done, has only its destructor left to run
C24_Witness ==
  /\ t_state[1] = "critical"
  /\ t_state[2] = "live"
  /\ t_parent[2] = 0
  /\ AllDone
  /\ t_val[1] # t_val[0]
  /\ t_val[2] # t_val[0]

\* the places (index set, segment) where object a is held
HeldAt(a) ==
  {<<i, k>> \in ISets \X (1..MaxSegs) :
     isets[i].live /\ k <= Len(isets[i].m_ptrs) /\ isets[i].m_ptrs[k] = a}

\* C25: every segment object that is alive is held by one index set, once;
\* every object that has been created and is held by no index set has been
\* deleted, and no delete has hit an object a second time
C25_ExclusiveOwnership ==
  /\ ~double_delete
  /\ \A a \in Addrs :
       Cardinality(HeldAt(a)) = (IF heap[a] = "live" THEN 1 ELSE 0)

\* two index sets hold segments after an assignment and a swap, and the
\* segment the assignment replaced has been deleted
C25_Witness ==
  /\ last_op.op = "swap"
  /\ last_op.a # last_op.b
  /\ NumSegments(isets[last_op.a]) >= 1
  /\ NumSegments(isets[last_op.b]) >= 1
  /\ \E a \in Addrs : heap[a] = "deleted"
  /\ \E a \in Addrs : heap[a] = "live"

\* C26: the indices the index set enumerates are those that were in the
\* buffer when each segment was added, whatever the caller has written to
\* the buffer since and also after the caller has freed it; no segment points
\* to the buffer
C26_NoAliasing ==
  /\ C_Flatten(c_iset.m_segments) = c_expect
  /\ c_iset.m_len = Len(c_expect)
  /\ \A k \in 1..Len(c_iset.m_segments) :
       /\ c_iset.m_segments[k].m_indx # Buffer
       /\ c_mem[c_iset.m_segments[k].m_indx].state = "live"

\* two List segments with different indices have been added from the one
\* buffer, and the buffer has been freed
C26_Witness ==
  /\ c_mem[Buffer].state = "freed"
  /\ Len(c_iset.m_segments) = 2
  /\ c_expect = Run(0, BufLen) \o Sparse(0, BufLen)
  /\ C_Flatten(c_iset.m_segments) = c_expect

\* no duplicate has been folded into the tree-merge root
NothingFolded == \A d \in Workers : t_state[d] # "dead"

\* C27: while no instance has been updated, get() returns the initial value
\* and getLoc() the initial location, on the root of the tree-merge flavor
\* (for a ReduceSum with another initializer than zero: until a duplicate is
\* folded into it) and on every instance of the slot-pool flavor, and every
\* slot holds the initial value, zero for a sum
C27_InitialRead ==
  r_done = {} =>
    /\ (t_custom_init[0] = 0 \/ NothingFolded) => T_Get = r_init_val
    /\ r_kind \in LocKinds => T_GetLoc = InitLoc
    /\ s_got.called =>
         s_got.val = (IF s_got.op = "get" THEN r_init_val ELSE InitLoc)
    /\ \A t \in Slots :
         /\ s_block[t] = (IF r_kind = "sum" THEN 0 ELSE r_init_val)
         /\ r_kind \in LocKinds => s_idxblock[t] = InitLoc

\* a copy of the slot-pool reducer has been read and both duplicates of the
\* tree-merge root have been destroyed; no update has been made
C27_Witness ==
  /\ r_done = {}
  /\ s_got.called
  /\ s_got.inst # 0
  /\ s_got.val = r_init_val
  /\ AllDuplicatesDestroyed
  /\ t_custom_init[0] = 0
  /\ T_Get = r_init_val

\* C28: called with a length that exceeds the extent of the array, the
\* builder reads no position outside the array and returns no index set
C28_LengthValidated ==
  length > Len(indices_in) => (pc \notin {"stat", "build", "done"} /\ hindex = EmptyISet)

RECURSIVE BuiltCost(_)
\* what the segments cost in the measure of the statistics pass: 2 for a
\* range, 1 + length for a list
BuiltCost(segs) ==
  IF segs = <<>> THEN 0
  ELSE (IF IsRange(Head(segs)) THEN 2 ELSE 1 + SegLength(Head(segs)))
         + BuiltCost(Tail(segs))

\* C29: when the builder has chosen compression, the estimate docount of the
\* statistics pass is 1 plus 2 for every range segment built plus 1 + length
\* for every list segment built
C29_EstimateMatchesBuild ==
  Compressed => docount = 1 + BuiltCost(hindex.m_segments)

\* a compressed index set with a range and a list
C29_Witness ==
  /\ Compressed
  /\ \E k \in 1..NumSegments(hindex) : IsRange(hindex.m_segments[k])
  /\ \E k \in 1..NumSegments(hindex) : IsList(hindex.m_segments[k])
  /\ docount = 1 + BuiltCost(hindex.m_segments)

\* the whole array as one list segment
WholeArrayList == <<UnstructuredISet(indices_in)>>

\* C30: the built index set is something else than the whole array as one
\* list segment exactly when length > RANGE_MIN_LENGTH and the estimate is
\* below floor(length * (RANGE_ALIGN - 1) / RANGE_ALIGN); an estimate equal
\* to the threshold and a length equal to RANGE_MIN_LENGTH give the one list
C30_CompressionDecision ==
  pc = "done" =>
    ((/\ length > RANGE_MIN_LENGTH
      /\ docount < (length * (RANGE_ALIGN - 1)) \div RANGE_ALIGN)
       <=> hindex.m_segments # WholeArrayList)

\* an array that starts with an aligned run and whose estimate is equal to
\* the threshold: it is built as one list segment
C30_Witness ==
  /\ pc = "done"
  /\ length > RANGE_MIN_LENGTH
  /\ docount = (length * (RANGE_ALIGN - 1)) \div RANGE_ALIGN
  /\ SubSeq(indices_in, 1, LongRun) = Run(0, LongRun)
  /\ hindex.m_segments = WholeArrayList

\* the number of input positions the first k segments cover
Covered(segs, k) == SumLengths(SubSeq(segs, 1, k))

\* C31: in a compressed result no list segment is followed by a list
\* segment, and the input value behind the last value of a range segment, if
\* there is one, is not that value plus one
C31_MaximalStretches ==
  Compressed =>
    LET segs == hindex.m_segments
    IN  /\ \A k \in 1..(Len(segs) - 1) : ~(IsList(segs[k]) /\ IsList(segs[k + 1]))
        /\ \A k \in 1..Len(segs) :
             (IsRange(segs[k]) /\ Covered(segs, k) < Len(indices_in))
               => indices_in[Covered(segs, k) + 1] # segs[k].m_end

\* a compressed result in which a range is followed by a list and a second
\* range
C31_Witness ==
  /\ Compressed
  /\ NumSegments(hindex) >= 3
  /\ \E k \in 1..(NumSegments(hindex) - 2) :
       /\ IsRange(hindex.m_segments[k])
       /\ IsList(hindex.m_segments[k + 1])
       /\ IsRange(hindex.m_segments[k + 2])

\* instance d is constructed as a copy in this step
Copies(d) == t_state[d] = "none" /\ t_state'[d] = "live"

\* every constructed duplicate has a parent, and that parent has none
FlatParents ==
  /\ t_parent[0] = NoParent
  /\ \A d \in Workers : t_state[d] # "none" =>
       /\ t_parent[d] # NoParent
       /\ t_parent[t_parent[d]] = NoParent

\* C32: a copy construction gives the new instance the parent of its source,
\* or the source when that has no parent: the parent of every duplicate, a
\* copy of a copy included, is an instance without parent, and the destructor
\* of a duplicate folds into that instance and no other
C32_FlatParents ==
  [][/\ FlatParents'
     /\ \A d \in Workers : Copies(d) =>
          \E other \in TInst :
            /\ t_state[other] = "live"
            /\ t_parent'[d] = IF t_parent[other] = NoParent THEN other
                              ELSE t_parent[other]
     /\ \A d \in Workers : Folds(d) =>
          /\ t_parent[t_parent[d]] = NoParent
          /\ TreeOthersUnchanged({t_parent[d]})
    ]_vars

\* after a single update both duplicates of a min reducer hold the updated
\* value, so one of them is a copy of the other; both have the root as
\* parent and one of them has been folded into it
C32_Witness ==
  /\ r_kind = "min"
  /\ Cardinality(r_done) = 1
  /\ t_val[1] < r_init_val
  /\ t_val[2] < r_init_val
  /\ t_parent[1] = 0
  /\ t_parent[2] = 0
  /\ t_state[1] = "live"
  /\ t_state[2] = "dead"
  /\ t_val[0] < r_init_val

\* C33: a copy of a tree-merge ReduceSum starts from the initializer the
\* source was constructed with and not from the value the source has
\* accumulated; a copy of a tree-merge min / max / minloc / maxloc reducer
\* starts from the current value (and location) of its source
C33_StartingValue ==
  [][\A d \in Workers : Copies(d) =>
       \E other \in TInst :
         /\ t_state[other] = "live"
         /\ t_parent'[d] \in {other, t_parent[other]}
         /\ IF r_kind = "sum"
            THEN t_val'[d] = t_custom_init[other]
            ELSE t_val'[d] = t_val[other] /\ t_idx'[d] = t_idx[other]
    ]_vars

\* a sum before any update: the root holds an initial value that differs from
\* the initializer, and both duplicates, the first of which was copied from
\* the root, hold the initializer
C33_Witness ==
  /\ r_kind = "sum"
  /\ t_state[1] = "live"
  /\ t_state[2] = "live"
  /\ r_done = {}
  /\ t_val[0] # t_custom_init[0]
  /\ t_val[1] = t_custom_init[0]
  /\ t_val[2] = t_custom_init[0]

RECURSIVE SumOver(_)
\* the sum of the array values at the positions in ks
SumOver(ks) ==
  IF ks = {} THEN 0
  ELSE LET k == CHOOSE x \in ks : TRUE IN r_arr[k] + SumOver(ks \ {k})

\* C34: once every instance of a tree-merge ReduceSum with default
\* initializer other than the root has been destroyed, copy and move
\* constructions included, the root holds its initial value plus every value
\* passed to += counted once; the instances are the root and its duplicates,
\* none is move-constructed from the root itself
C34_ExactlyOnce ==
  (/\ r_kind = "sum"
   /\ t_custom_init[0] = 0
   /\ AllDuplicatesDestroyed
   /\ \A d \in Workers : t_parent[d] = 0)
    => T_Get = r_init_val + SumOver(r_done)

\* C35: while no instance of a tree-merge reducer is updated, creating and
\* destroying duplicates leaves the value (and location) of the root as it
\* was constructed, for every kind and every initializer
C35_NeutralDuplicate ==
  /\ t_val[0] = r_init_val
  /\ r_kind \in LocKinds => t_idx[0] = InitLoc

\* a is not behind b: not larger for a min / minloc reducer, not smaller for
\* a max / maxloc reducer
NotBehind(a, b) == IF r_kind \in {"min", "minloc"} THEN a <= b ELSE a >= b

\* C36: the value get() returns on an instance of a min (max) reducer of
\* either flavor is never larger (smaller) than the initial value and never
\* larger (smaller) than what get() returned on that instance before
C36_Monotonic ==
  [][/\ \A i \in TInst : t_state[i] = "live" =>
          /\ NotBehind(t_val[i], r_init_val)
          /\ t_state'[i] = "live" => NotBehind(t_val'[i], t_val[i])
     /\ \A c \in SInst : s_state[c] = "live" =>
          /\ NotBehind(Reduced(c), r_init_val)
          /\ s_state'[c] = "live" => NotBehind(Reduced(c)', Reduced(c))
    ]_vars

\* a tree-merge max reducer whose root has moved away from the initial value
\* by the fold of one duplicate while the other duplicate still holds a
\* smaller value
C36_Witness ==
  /\ r_kind = "max"
  /\ t_val[0] > r_init_val
  /\ \E d \in Workers : t_state[d] = "dead"
  /\ \E d \in Workers : t_state[d] = "live" /\ t_val[d] < t_val[0]

\* a read (get, operator T or getLoc) is performed in this step
Reads == s_reads' # s_reads

\* C37: a read of a slot-pool reducer leaves the value and the location of
\* every slot as they were and changes m_reduced_val and m_reduced_idx of no
\* instance but the one it is called on; get() returns the same value on
\* every live instance, copy or original
C37_ReadsKeepSlots ==
  [][/\ Reads =>
          /\ s_block' = s_block
          /\ s_idxblock' = s_idxblock
          /\ s_got'.called
          /\ \A i \in SInst \ {s_got'.inst} :
               /\ s_reduced_val'[i] = s_reduced_val[i]
               /\ s_reduced_idx'[i] = s_reduced_idx[i]
     /\ \A c \in SInst : s_state[c] = "live" => Reduced(c) = Reduced(0)
    ]_vars

\* get() through a copy has returned a value that stems from an update: the
\* cached value of the copy differs from that of the original, which still
\* is the initial one
C37_Witness ==
  /\ s_got.called
  /\ s_got.op = "get"
  /\ s_got.inst # 0
  /\ s_got.val # r_init_val
  /\ s_reduced_val[s_got.inst] = s_got.val
  /\ r_kind # "sum" => s_reduced_val[0] = r_init_val
  /\ \E t \in Slots : s_block[t] = s_got.val

\* a build step appends a segment
Appends == pc = "build" /\ NumSegments(hindex') = NumSegments(hindex) + 1

\* C38: every segment the build pass appends is non-empty, a range segment
\* covers at least two indices, and a list segment starts at a position
\* dobegin of the input array and ends within it
C38_NoDegenerateSegments ==
  [][Appends =>
       LET seg == hindex'.m_segments[NumSegments(hindex')]
       IN  /\ SegLength(seg) >= 1
           /\ IsRange(seg) => SegLength(seg) >= 2
           /\ IsList(seg) =>
                /\ inrange # -1
                /\ dobegin >= 0
                /\ dobegin + SegLength(seg) <= Len(indices_in)
    ]_vars

\* a compressed result that holds a range and ends with a list of one index
C38_Witness ==
  /\ Compressed
  /\ \E k \in 1..NumSegments(hindex) : IsRange(hindex.m_segments[k])
  /\ IsList(hindex.m_segments[NumSegments(hindex)])
  /\ SegLength(hindex.m_segments[NumSegments(hindex)]) = 1

\* the update of this step, of position k, finds the pair (val, loc) and
\* leaves (val2, loc2): the new value and its position when the new value is
\* strictly better, the pair as it was otherwise
TieRule(k, val, loc, val2, loc2) ==
  IF Wins(r_kind, val, r_arr[k])
    THEN val2 = r_arr[k] /\ loc2 = k
    ELSE val2 = val /\ loc2 = loc

\* C39: minloc(v, i) / maxloc(v, i) replaces the stored value and location of
\* the instance (tree-merge) or of the slot of the thread (slot-pool) only
\* when v is strictly better than the stored value; when v equals the stored
\* value the stored location is kept
C39_TieRule ==
  [][\A k \in Positions : (r_kind \in LocKinds /\ k \notin r_done /\ k \in r_done') =>
       IF t_state[0] = "live"
         THEN \E d \in Workers :
                /\ t_state[d] = "live"
                /\ TieRule(k, t_val[d], t_idx[d], t_val'[d], t_idx'[d])
                /\ TreeOthersUnchanged({d})
         ELSE \E t \in Slots :
                /\ TieRule(k, s_block[t], s_idxblock[t], s_block'[t], s_idxblock'[t])
                /\ \A u \in Slots \ {t} :
                     s_block'[u] = s_block[u] /\ s_idxblock'[u] = s_idxblock[u]
    ]_vars

\* the only duplicate of a tree-merge minloc reducer has been given the same
\* winning value at positions 1 and 2 and holds location 1
C39_Witness ==
  /\ r_kind = "minloc"
  /\ t_state[1] = "live"
  /\ t_state[2] = "none"
  /\ r_done = {1, 2}
  /\ r_arr[1] = r_arr[2]
  /\ t_val[1] = r_arr[1]
  /\ t_val[1] < r_init_val
  /\ t_idx[1] = 1

====
